---------------------------- MODULE Spec2Model ----------------------------
(***************************************************************************)
(* Nutrition aggregation and FSSAI compliance engine of the label          *)
(* generator (src/klh/labels): Recipe.calculate_nutrition, the             *)
(* FSSAIComplianceChecker rule battery and its front-of-pack classifier.   *)
(*                                                                         *)
(* Numbers.  The program computes with Python floats.  Here every number   *)
(* is an exact rational <<num, den>> (den > 0, lowest terms), arithmetic   *)
(* is exact, and round(x, k) is rounding to k decimals with ties to even.  *)
(* Python's None is the empty tuple <<>>.                                  *)
(***************************************************************************)
EXTENDS Integers, Sequences, FiniteSets, TLC

VARIABLES
    nutrients,             \* Nutrient table: nutrient id -> [name, daily_value]
    ingredient_nutrients,  \* IngredientNutrient rows: <<ingredient, nid>> -> value_per_100g
    recipe,                \* a Recipe row with its RecipeIngredient rows
    nutrition_data,        \* dict nid -> entry: calculate_nutrition's result, the checker's input
    issues,                \* FSSAIComplianceChecker.issues
    warnings,              \* FSSAIComplianceChecker.warnings
    info,                  \* FSSAIComplianceChecker.info
    result,                \* what check_all returned last: [is_compliant, notes], or None
    indicators,            \* what get_fop_indicators returned last, or None
    response,              \* what the view answered last, or None
    db,                    \* the stored Recipe with its RecipeIngredient, GeneratedLabel
                           \* and RecipeVersion rows
    pc                     \* the step the request is at

vars == <<nutrients, ingredient_nutrients, recipe, nutrition_data,
          issues, warnings, info, result, indicators, response, db, pc>>

None == <<>>

\* The tables of one recipe before anything is stored: no Recipe row, no
\* RecipeIngredient, GeneratedLabel or RecipeVersion rows.
EmptyDb == [recipe |-> None, rows |-> <<>>, labels |-> <<>>, versions |-> <<>>]

-----------------------------------------------------------------------------
(* Exact rational arithmetic                                               *)

Abs(x) == IF x < 0 THEN -x ELSE x

RECURSIVE GCD(_, _)
GCD(a, b) == IF b = 0 THEN a ELSE GCD(b, a % b)

\* n/d in lowest terms with a positive denominator (d # 0).
Rat(n, d) ==
    LET g == GCD(Abs(n), Abs(d))
        s == IF d < 0 THEN -1 ELSE 1
    IN  <<(s * n) \div g, (s * d) \div g>>

R(n) == <<n, 1>>
Zero == R(0)

\* a + b over the least common denominator.
RAdd(a, b) ==
    LET g == GCD(a[2], b[2])
    IN  Rat(a[1] * (b[2] \div g) + b[1] * (a[2] \div g), (a[2] \div g) * b[2])
\* a * b, the common factors taken out before the products are formed.
RMul(a, b) ==
    LET g1 == GCD(Abs(a[1]), Abs(b[2]))
        g2 == GCD(Abs(b[1]), Abs(a[2]))
    IN  Rat((a[1] \div g1) * (b[1] \div g2), (a[2] \div g2) * (b[2] \div g1))
RDiv(a, b) == RMul(a, <<b[2], b[1]>>)
\* a < b and a <= b: by the whole parts, then by the fractional parts.
RLt(a, b) ==
    LET wa == a[1] \div a[2]
        wb == b[1] \div b[2]
    IN  IF wa # wb THEN wa < wb
        ELSE (a[1] % a[2]) * b[2] < (b[1] % b[2]) * a[2]
RLe(a, b) ==
    LET wa == a[1] \div a[2]
        wb == b[1] \div b[2]
    IN  IF wa # wb THEN wa < wb
        ELSE (a[1] % a[2]) * b[2] <= (b[1] % b[2]) * a[2]
RGt(a, b) == RLt(b, a)

RECURSIVE Pow10(_)
Pow10(k) == IF k = 0 THEN 1 ELSE 10 * Pow10(k - 1)

\* The first k decimal digits of rem/den (0 <= rem < den) after acc, and the
\* remainder left: <<digits, remainder>>.
RECURSIVE Decimals(_, _, _, _)
Decimals(rem, den, k, acc) ==
    IF k = 0 THEN <<acc, rem>>
    ELSE Decimals((rem * 10) % den, den, k - 1, acc * 10 + (rem * 10) \div den)

\* Python's round(x, ndigits): the nearest multiple of 10^-ndigits, a tie
\* going to the even one.
Round(x, ndigits) ==
    LET p     == Pow10(ndigits)
        den   == x[2]
        whole == x[1] \div den
        d     == Decimals(x[1] % den, den, ndigits, 0)
        q     == whole * p + d[1]
        r2    == 2 * d[2]
        up    == IF r2 > den THEN 1
                 ELSE IF r2 < den THEN 0
                 ELSE IF q % 2 = 0 THEN 0 ELSE 1
    IN  Rat(q + up, p)

\* Python truthiness of an optional number: None and 0 are falsy.
Truthy(x) == x # None /\ x[1] # 0

-----------------------------------------------------------------------------
(* Nutrient catalog (management/commands/seed_nutrition_db.py)             *)

Nutrient(name, dv) == [name |-> name, daily_value |-> dv]

\* The seeded Nutrient rows the compliance rules name, in the order the
\* checker's MANDATORY_NUTRIENTS lists them, and one without a daily value.
SeededNutrients ==
    << Nutrient("Energy", R(2000)),
       Nutrient("Total Fat", R(67)),
       Nutrient("Saturated Fat", R(22)),
       Nutrient("Trans Fat", R(2)),
       Nutrient("Total Carbohydrate", R(300)),
       Nutrient("Total Sugars", R(50)),
       Nutrient("Added Sugars", R(50)),
       Nutrient("Protein", R(55)),
       Nutrient("Sodium", R(2300)),
       Nutrient("Dietary Fibre", R(25)),
       Nutrient("Monounsaturated Fat", None) >>

\* The id of the seeded nutrient called name.
NutrientId(name) == CHOOSE i \in DOMAIN SeededNutrients : SeededNutrients[i].name = name

-----------------------------------------------------------------------------
(* Recipe.total_weight and Recipe.calculate_nutrition (models.py)          *)
(*                                                                         *)
(* rows is the recipe's RecipeIngredient rows, ingredient -> weight_grams  *)
(* (unique per recipe and ingredient); inv is the IngredientNutrient       *)
(* table, <<ingredient, nid>> -> value_per_100g; nuts is the Nutrient      *)
(* table.                                                                  *)

\* sum(...) of the values of the function f over the finite set S, from 0.
RECURSIVE SumOver(_, _)
SumOver(S, f) ==
    IF S = {} THEN Zero
    ELSE LET x == CHOOSE y \in S : TRUE
         IN  RAdd(f[x], SumOver(S \ {x}, f))

\* Recipe.total_weight
TotalWeight(rows) == SumOver(DOMAIN rows, rows)

\* value = (ri.weight_grams / 100.0) * inv.value_per_100g
Contribution(weight_grams, value_per_100g) ==
    RMul(RDiv(weight_grams, R(100)), value_per_100g)

\* The ingredients of the recipe that have an IngredientNutrient row for nid.
Contributors(rows, inv, nid) == {i \in DOMAIN rows : <<i, nid>> \in DOMAIN inv}

\* A plausible slip: = in place of += (one contribution wins).
RawTotalOverwrite(rows, inv, nid) ==
    LET last == CHOOSE i \in Contributors(rows, inv, nid) : TRUE
    IN  Contribution(rows[last], inv[<<last, nid>>])

\* nutrition[nid]['total_value'] after the first loop.
RawTotal(rows, inv, nid) ==
    SumOver(Contributors(rows, inv, nid),
            [i \in Contributors(rows, inv, nid) |-> Contribution(rows[i], inv[<<i, nid>>])])

\* A plausible slip: 0 reported where there is no daily value.
PercentDvZeroDefault(per_serving, daily_value) ==
    IF Truthy(daily_value)
    THEN Round(RMul(RDiv(per_serving, daily_value), R(100)), 1)
    ELSE Zero

\* The if nutrient.daily_value / else of the second loop.
PercentDv(per_serving, daily_value) ==
    IF Truthy(daily_value)
    THEN Round(RMul(RDiv(per_serving, daily_value), R(100)), 1)
    ELSE None

\* A plausible slip: a key for every nutrient of the catalog.
NutritionKeysFullCatalog(rows, inv, nuts) == DOMAIN nuts

\* The keys of the dict after the first loop: a key is made when a row of
\* an ingredient of the recipe is met.
NutritionKeys(rows, inv, nuts) ==
    {nid \in DOMAIN nuts : Contributors(rows, inv, nid) # {}}

\* A plausible slip: the sum of the weights used as it is.
OrOneLeftOut(x) == x

\* Python's "x or 1" on a number: 1 in place of a zero.
OrOne(x) == IF Truthy(x) THEN x ELSE R(1)

\* What a call gives when a float division by zero raises in it: the
\* exception leaves the view, in place of the dict or the JSON body.
ZeroDivisionError == [nid \in {0} |-> [error |-> "ZeroDivisionError"]]

\* Recipe.calculate_nutrition
CalculateNutrition(rec, inv, nuts) ==
    LET rows     == rec.ingredients
        total_wt == OrOne(TotalWeight(rows))
    IN  IF NutritionKeys(rows, inv, nuts) # {} /\ total_wt = Zero
        THEN ZeroDivisionError
        ELSE
        [nid \in NutritionKeys(rows, inv, nuts) |->
            LET total       == RawTotal(rows, inv, nid)
                per_serving == RMul(RDiv(total, total_wt), rec.serving_size)
            IN  [nutrient    |-> nuts[nid],
                 total_value |-> Round(total, 2),
                 per_serving |-> Round(per_serving, 2),
                 per_100g    |-> Round(RMul(RDiv(total, total_wt), R(100)), 2),
                 percent_dv  |-> PercentDv(per_serving, nuts[nid].daily_value)]]

-----------------------------------------------------------------------------
(* FSSAIComplianceChecker: constants                                       *)

MANDATORY_NUTRIENTS ==
    << "Energy", "Total Fat", "Saturated Fat", "Trans Fat",
       "Total Carbohydrate", "Total Sugars", "Added Sugars",
       "Protein", "Sodium", "Dietary Fibre" >>

HIGH_FAT_THRESHOLD == Rat(175, 10)
HIGH_SUGAR_THRESHOLD == Rat(225, 10)
HIGH_SODIUM_THRESHOLD == R(600)
HIGH_SATURATED_FAT_THRESHOLD == Rat(50, 10)

\* dict.get(key, default) on a TLA+ function.
DictGet(d, key, default) == IF key \in DOMAIN d THEN d[key] ELSE default

\* per_100g[data['nutrient'].name] = data.get('per_100g', 0), over the
\* entries of nutrition_data.
Per100gByName(nd) ==
    [name \in {nd[nid].nutrient.name : nid \in DOMAIN nd} |->
        LET nid == CHOOSE k \in DOMAIN nd : nd[k].nutrient.name = name
        IN  nd[nid].per_100g]

-----------------------------------------------------------------------------
(* FSSAIComplianceChecker.get_fop_indicators                               *)

FopChecks ==
    << [name |-> "Total Fat", threshold |-> HIGH_FAT_THRESHOLD, unit |-> "g"],
       [name |-> "Saturated Fat", threshold |-> HIGH_SATURATED_FAT_THRESHOLD, unit |-> "g"],
       [name |-> "Total Sugars", threshold |-> HIGH_SUGAR_THRESHOLD, unit |-> "g"],
       [name |-> "Sodium", threshold |-> HIGH_SODIUM_THRESHOLD, unit |-> "mg"] >>

\* A plausible slip: >= in place of > on both comparisons.
FopLevelInclusive(value, threshold) ==
    IF RLe(threshold, value) THEN [level |-> "HIGH", color |-> "red"]
    ELSE IF RLe(RMul(threshold, Rat(1, 2)), value) THEN [level |-> "MEDIUM", color |-> "amber"]
    ELSE [level |-> "LOW", color |-> "green"]

\* A plausible slip: the two lower branches exchanged.
FopLevelSwapped(value, threshold) ==
    IF RGt(value, threshold) THEN [level |-> "HIGH", color |-> "red"]
    ELSE IF RGt(value, RMul(threshold, Rat(1, 2))) THEN [level |-> "LOW", color |-> "green"]
    ELSE [level |-> "MEDIUM", color |-> "amber"]

\* The if / elif / else of the loop body.
FopLevel(value, threshold) ==
    IF RGt(value, threshold) THEN [level |-> "HIGH", color |-> "red"]
    ELSE IF RGt(value, RMul(threshold, Rat(1, 2))) THEN [level |-> "MEDIUM", color |-> "amber"]
    ELSE [level |-> "LOW", color |-> "green"]

FopIndicator(per_100g, check) ==
    LET value == DictGet(per_100g, check.name, Zero)
        lc    == FopLevel(value, check.threshold)
    IN  [nutrient |-> check.name, value |-> value, unit |-> check.unit,
         level |-> lc.level, color |-> lc.color]

\* A plausible slip: a nutrient missing from the result is left out.
GetFopIndicatorsSkipAbsent(nd) ==
    LET per_100g == Per100gByName(nd)
        present  == SelectSeq(FopChecks, LAMBDA c : c.name \in DOMAIN per_100g)
    IN  [k \in 1..Len(present) |-> FopIndicator(per_100g, present[k])]

GetFopIndicators(nd) ==
    LET per_100g == Per100gByName(nd)
    IN  [k \in 1..Len(FopChecks) |-> FopIndicator(per_100g, FopChecks[k])]

-----------------------------------------------------------------------------
(* FSSAIComplianceChecker: the rule battery                                *)
(*                                                                         *)
(* A finding is <<text, argument>>: the fixed text of the message and the  *)
(* value the f-string puts into it ("" or None when it has none).  A       *)
(* checker object is [issues, warnings, info].                             *)

Checker(iss, warn, inf) == [issues |-> iss, warnings |-> warn, info |-> inf]

AddIssue(chk, f) == [chk EXCEPT !.issues = Append(@, f)]
AddWarning(chk, f) == [chk EXCEPT !.warnings = Append(@, f)]
AddInfo(chk, f) == [chk EXCEPT !.info = Append(@, f)]

\* str.strip() on a sequence of characters.
IsSpace(c) == c = " "

RECURSIVE LStrip(_)
LStrip(s) == IF s # <<>> /\ IsSpace(Head(s)) THEN LStrip(Tail(s)) ELSE s

RECURSIVE RStrip(_)
RStrip(s) ==
    IF s # <<>> /\ IsSpace(s[Len(s)]) THEN RStrip(SubSeq(s, 1, Len(s) - 1)) ELSE s

Strip(s) == RStrip(LStrip(s))

Digits == {"0", "1", "2", "3", "4", "5", "6", "7", "8", "9"}

\* str.isdigit(): non-empty and every character a digit.
IsDigit(s) == s # <<>> /\ \A k \in 1..Len(s) : s[k] \in Digits

\* A plausible slip: the scan stops at the first missing name.
CheckMandatoryNutrientsFirstOnly(chk, rec, nd) ==
    LET present_names == {nd[nid].nutrient.name : nid \in DOMAIN nd}
        missing == SelectSeq(MANDATORY_NUTRIENTS, LAMBDA mn : mn \notin present_names)
    IN  IF missing = <<>> THEN chk
        ELSE AddIssue(chk, <<"MISSING MANDATORY NUTRIENT", missing[1]>>)

\* _check_mandatory_nutrients
CheckMandatoryNutrients(chk, rec, nd) ==
    LET present_names == {nd[nid].nutrient.name : nid \in DOMAIN nd}
        missing == SelectSeq(MANDATORY_NUTRIENTS, LAMBDA mn : mn \notin present_names)
    IN  [chk EXCEPT !.issues =
            @ \o [k \in 1..Len(missing) |-> <<"MISSING MANDATORY NUTRIENT", missing[k]>>]]

\* _check_serving_size_declaration
\* A plausible slip: the servings-per-pack finding filed with the issues.
CheckServingSizeDeclarationAllIssues(chk, rec, nd) ==
    LET c1 == IF ~Truthy(rec.serving_size) \/ RLe(rec.serving_size, Zero)
              THEN AddIssue(chk, <<"SERVING SIZE", "">>) ELSE chk
        c2 == IF rec.serving_unit = ""
              THEN AddIssue(c1, <<"SERVING UNIT", "">>) ELSE c1
    IN  IF ~Truthy(rec.servings_per_pack) \/ RLe(rec.servings_per_pack, Zero)
        THEN AddIssue(c2, <<"SERVINGS PER PACK", None>>) ELSE c2

\* _check_serving_size_declaration
CheckServingSizeDeclaration(chk, rec, nd) ==
    LET c1 == IF ~Truthy(rec.serving_size) \/ RLe(rec.serving_size, Zero)
              THEN AddIssue(chk, <<"SERVING SIZE", "">>) ELSE chk
        c2 == IF rec.serving_unit = ""
              THEN AddIssue(c1, <<"SERVING UNIT", "">>) ELSE c1
    IN  IF ~Truthy(rec.servings_per_pack) \/ RLe(rec.servings_per_pack, Zero)
        THEN AddWarning(c2, <<"SERVINGS PER PACK", None>>) ELSE c2

\* _check_fop_warnings
CheckFopWarnings(chk, rec, nd) ==
    LET per_100g  == Per100gByName(nd)
        total_fat == DictGet(per_100g, "Total Fat", Zero)
        sat_fat   == DictGet(per_100g, "Saturated Fat", Zero)
        sugars    == DictGet(per_100g, "Total Sugars", Zero)
        sodium    == DictGet(per_100g, "Sodium", Zero)
        c1 == IF RGt(total_fat, HIGH_FAT_THRESHOLD)
              THEN AddWarning(chk, <<"HIGH IN FAT", total_fat>>) ELSE chk
        c2 == IF RGt(sat_fat, HIGH_SATURATED_FAT_THRESHOLD)
              THEN AddWarning(c1, <<"HIGH IN SATURATED FAT", sat_fat>>) ELSE c1
        c3 == IF RGt(sugars, HIGH_SUGAR_THRESHOLD)
              THEN AddWarning(c2, <<"HIGH IN SUGAR", sugars>>) ELSE c2
    IN  IF RGt(sodium, HIGH_SODIUM_THRESHOLD)
        THEN AddWarning(c3, <<"HIGH IN SODIUM", sodium>>) ELSE c3

\* A plausible slip: the rule skipped once an earlier rule has found an issue.
CheckIngredientListUnlessFailed(chk, rec, nd) ==
    IF chk.issues # <<>> THEN chk
    ELSE IF DOMAIN rec.ingredients = {}
    THEN AddIssue(chk, <<"INGREDIENT LIST", "">>)
    ELSE AddInfo(chk, <<"INGREDIENT LIST", R(Cardinality(DOMAIN rec.ingredients))>>)

\* _check_ingredient_list
CheckIngredientList(chk, rec, nd) ==
    IF DOMAIN rec.ingredients = {}
    THEN AddIssue(chk, <<"INGREDIENT LIST", "">>)
    ELSE AddInfo(chk, <<"INGREDIENT LIST", R(Cardinality(DOMAIN rec.ingredients))>>)

\* A plausible slip: the missing declaration filed under issues.
CheckAllergenDeclarationAsIssue(chk, rec, nd) ==
    IF rec.allergen_info = ""
    THEN AddIssue(chk, <<"ALLERGEN DECLARATION", "">>)
    ELSE AddInfo(chk, <<"ALLERGEN DECLARATION: Provided.", None>>)

\* _check_allergen_declaration
CheckAllergenDeclaration(chk, rec, nd) ==
    IF rec.allergen_info = ""
    THEN AddWarning(chk, <<"ALLERGEN DECLARATION", None>>)
    ELSE AddInfo(chk, <<"ALLERGEN DECLARATION: Provided.", None>>)

\* _check_fssai_license
\* A plausible slip: the length tested and the digits not.
CheckFssaiLicenseLengthOnly(chk, rec, nd) ==
    LET lic == Strip(rec.fssai_license)
    IN  IF lic = <<>>
        THEN AddWarning(chk, <<"FSSAI LICENSE: No FSSAI license number provided.", None>>)
        ELSE IF Len(lic) # 14
        THEN AddWarning(chk, <<"FSSAI LICENSE: may not be valid.", None>>)
        ELSE AddInfo(chk, <<"FSSAI LICENSE: (format valid).", None>>)

\* _check_fssai_license
CheckFssaiLicense(chk, rec, nd) ==
    LET lic == Strip(rec.fssai_license)
    IN  IF lic = <<>>
        THEN AddWarning(chk, <<"FSSAI LICENSE: No FSSAI license number provided.", None>>)
        ELSE IF Len(lic) # 14 \/ ~IsDigit(lic)
        THEN AddWarning(chk, <<"FSSAI LICENSE: may not be valid.", None>>)
        ELSE AddInfo(chk, <<"FSSAI LICENSE: (format valid).", None>>)

\* A plausible slip: a share of exactly 2 % warned about as well.
CheckTransFatFromTwo(chk, rec, nd) ==
    LET by_name == Per100gByName(nd)
    IN  IF "Trans Fat" \notin DOMAIN by_name THEN chk
        ELSE
            LET per_100g == by_name["Trans Fat"]
                total_fat_per_100g == DictGet(by_name, "Total Fat", Zero)
            IN  IF RGt(total_fat_per_100g, Zero) /\ RGt(per_100g, Zero)
                THEN LET trans_pct == RMul(RDiv(per_100g, total_fat_per_100g), R(100))
                     IN  IF RLe(R(2), trans_pct)
                         THEN AddWarning(chk, <<"TRANS FAT", <<per_100g, trans_pct>>>>)
                         ELSE chk
                ELSE chk

\* _check_trans_fat: the first (and, names being unique, only) Trans Fat entry.
CheckTransFat(chk, rec, nd) ==
    LET by_name == Per100gByName(nd)
    IN  IF "Trans Fat" \notin DOMAIN by_name THEN chk
        ELSE
            LET per_100g == by_name["Trans Fat"]
                total_fat_per_100g == DictGet(by_name, "Total Fat", Zero)
            IN  IF RGt(total_fat_per_100g, Zero) /\ RGt(per_100g, Zero)
                THEN LET trans_pct == RMul(RDiv(per_100g, total_fat_per_100g), R(100))
                     IN  IF RGt(trans_pct, R(2))
                         THEN AddWarning(chk, <<"TRANS FAT", <<per_100g, trans_pct>>>>)
                         ELSE chk
                ELSE chk

\* enumerate(findings, 1) under a heading: the section's lines.
Section(heading, findings) ==
    IF findings = <<>> THEN <<>>
    ELSE <<<<"heading", 0, <<heading, None>>>>>>
         \o [k \in 1..Len(findings) |-> <<"item", k, findings[k]>>]

\* _format_notes: the lines joined by newlines.
FormatNotes(chk) ==
    Section("=== COMPLIANCE ISSUES (Must Fix) ===", chk.issues)
    \o Section("=== WARNINGS (Recommended) ===", chk.warnings)
    \o Section("=== INFO ===", chk.info)
    \o (IF chk.issues = <<>> /\ chk.warnings = <<>>
        THEN <<<<"line", 0, <<"All FSSAI compliance checks passed.", None>>>>>>
        ELSE <<>>)

\* A plausible slip: the three assignments that open check_all left out.
ResetListsKept(chk) == chk

\* self.issues = []; self.warnings = []; self.info = [] at the top of check_all.
ResetLists(chk) == Checker(<<>>, <<>>, <<>>)

\* The seven checks in check_all's order, on the checker object chk.
RunChecksOn(chk, rec, nd) ==
    LET c0 == ResetLists(chk)
        c1 == CheckMandatoryNutrients(c0, rec, nd)
        c2 == CheckServingSizeDeclaration(c1, rec, nd)
        c3 == CheckFopWarnings(c2, rec, nd)
        c4 == CheckIngredientList(c3, rec, nd)
        c5 == CheckAllergenDeclaration(c4, rec, nd)
        c6 == CheckFssaiLicense(c5, rec, nd)
    IN  CheckTransFat(c6, rec, nd)

\* The seven checks on a checker object as __init__ leaves it.
RunChecks(rec, nd) == RunChecksOn(Checker(<<>>, <<>>, <<>>), rec, nd)

\* A plausible slip: a verdict that also demands an empty warnings list.
VerdictNoWarnings(chk) == Len(chk.issues) = 0 /\ Len(chk.warnings) = 0

\* is_compliant = len(self.issues) == 0
Verdict(chk) == Len(chk.issues) = 0

\* check_all on the checker object chk: its lists after the call and the pair
\* it returns.
CheckAllOn(chk, rec, nd) ==
    LET after == RunChecksOn(chk, rec, nd)
    IN  [chk |-> after, is_compliant |-> Verdict(after), notes |-> FormatNotes(after)]

\* check_all on a checker object as __init__ leaves it.
CheckAllOf(rec, nd) == CheckAllOn(Checker(<<>>, <<>>, <<>>), rec, nd)

-----------------------------------------------------------------------------
(* api_live_calculate (api_views.py): nutrition of a posted ingredient     *)
(* list, nothing saved                                                     *)

\* The seeded nutrient names in the order sort() puts them.
NamesInSortOrder ==
    << "Added Sugars", "Dietary Fibre", "Energy", "Monounsaturated Fat", "Protein",
       "Saturated Fat", "Sodium", "Total Carbohydrate", "Total Fat", "Total Sugars",
       "Trans Fat" >>

\* The if n.daily_value of the result loop.
LivePercentDv(per_serving, daily_value) ==
    IF Truthy(daily_value)
    THEN Round(RMul(RDiv(per_serving, daily_value), R(100)), 1)
    ELSE None

\* The "Quick FOP check" of the handler, with its own thresholds.
LiveFopChecks ==
    << <<"Total Fat", Rat(175, 10), "g">>, <<"Saturated Fat", Rat(50, 10), "g">>,
       <<"Total Sugars", Rat(225, 10), "g">>, <<"Sodium", R(600), "mg">> >>

LiveFop(per_100g_map) ==
    [k \in DOMAIN LiveFopChecks |->
        LET val == DictGet(per_100g_map, LiveFopChecks[k][1], Zero)
            threshold == LiveFopChecks[k][2]
            lc == IF RGt(val, threshold) THEN <<"HIGH", "red">>
                  ELSE IF RGt(val, RMul(threshold, Rat(1, 2))) THEN <<"MEDIUM", "amber">>
                  ELSE <<"LOW", "green">>
        IN  [nutrient |-> LiveFopChecks[k][1], value |-> Round(val, 2),
             unit |-> LiveFopChecks[k][3], level |-> lc[1], color |-> lc[2]]]

\* items is the posted list of [ingredient_id, weight_grams], serving_size
\* the posted serving size.
LiveCalculate(items, serving_size, inv, nuts) ==
    LET kept == {k \in DOMAIN items : RGt(items[k].weight_grams, Zero)}
        total_weight == SumOver(kept, [k \in kept |-> items[k].weight_grams])
        With(nid) == {k \in kept : <<items[k].ingredient_id, nid>> \in DOMAIN inv}
        keys == {nid \in DOMAIN nuts : With(nid) # {}}
        Total(nid) ==
            SumOver(With(nid),
                    [k \in With(nid) |->
                        RMul(RDiv(items[k].weight_grams, R(100)),
                             inv[<<items[k].ingredient_id, nid>>])])
        tw == OrOne(total_weight)
        Row(nid) ==
            LET per_serving == RMul(RDiv(Total(nid), tw), serving_size)
                per_100g    == RMul(RDiv(Total(nid), tw), R(100))
            IN  [nutrient_id |-> nid,
                 name        |-> nuts[nid].name,
                 total_value |-> Round(Total(nid), 2),
                 per_serving |-> Round(per_serving, 2),
                 per_100g    |-> Round(per_100g, 2),
                 percent_dv  |-> LivePercentDv(per_serving, nuts[nid].daily_value)]
        sorted == SelectSeq(NamesInSortOrder,
                            LAMBDA name : \E nid \in keys : nuts[nid].name = name)
        rows == [k \in DOMAIN sorted |->
                    Row(CHOOSE nid \in keys : nuts[nid].name = sorted[k])]
        per_100g_map == [name \in {rows[k].name : k \in DOMAIN rows} |->
                            rows[CHOOSE k \in DOMAIN rows : rows[k].name = name].per_100g]
    IN  IF keys # {} /\ tw = Zero
        THEN [error |-> "ZeroDivisionError"]
        ELSE [nutrition |-> rows, fop_indicators |-> LiveFop(per_100g_map),
              total_weight |-> Round(total_weight, 1)]

-----------------------------------------------------------------------------
(* The checker's inputs                                                    *)

\* A string of n copies of the character c.
Rep(c, n) == [k \in 1..n |-> c]

\* An entry of the nutrition dict for nutrient nid at v per 100 g, as
\* calculate_nutrition builds it for a 100 g recipe served in 100 g.
Entry(nid, v) ==
    LET nutrient == SeededNutrients[nid]
    IN  [nutrient |-> nutrient, total_value |-> v, per_serving |-> v, per_100g |-> v,
         percent_dv |-> IF Truthy(nutrient.daily_value)
                        THEN Round(RMul(RDiv(v, nutrient.daily_value), R(100)), 1)
                        ELSE None]

\* The Recipe fields the checker reads.
RecipeRow(size, unit, per_pack, allergens, license, rows) ==
    [serving_size |-> size, serving_unit |-> unit, servings_per_pack |-> per_pack,
     allergen_info |-> allergens, fssai_license |-> license, ingredients |-> rows]

\* Recipe's field defaults (models.py), with one ingredient row.
DefaultRecipe ==
    RecipeRow(R(100), "g", R(1), "", <<>>, [i \in {"Rice"} |-> R(100)])

-----------------------------------------------------------------------------
(* Front-of-pack classification of a nutrition result: SpecFOP             *)

\* Values are taken this many hundredths either side of each boundary.
MaxDelta == 1

Half == Rat(1, 2)

\* What a nutrition result may hold for an FOP nutrient with threshold T:
\* nothing, zero, or a value at or next to T*0.5 or T (per_100g has two
\* decimals).
FopChoices ==
    {<<"absent", 0>>, <<"zero", 0>>}
    \cup {<<b, d>> : b \in {"half", "full"}, d \in (0 - MaxDelta)..MaxDelta}

ChoiceValue(c, threshold) ==
    IF c[1] = "zero" THEN Zero
    ELSE IF c[1] = "half" THEN RAdd(RMul(threshold, Half), Rat(c[2], 100))
    ELSE RAdd(threshold, Rat(c[2], 100))

FopValues(threshold) == {ChoiceValue(c, threshold) : c \in FopChoices \ {<<"absent", 0>>}}

\* The nutrition dict holding, for the k-th FOP nutrient, what choice[k] says.
FopInput(choice) ==
    LET present == {k \in DOMAIN FopChecks : choice[k][1] # "absent"}
        KOf(nid) == CHOOSE k \in present : NutrientId(FopChecks[k].name) = nid
    IN  [nid \in {NutrientId(FopChecks[k].name) : k \in present} |->
            Entry(nid, ChoiceValue(choice[KOf(nid)], FopChecks[KOf(nid)].threshold))]

\* FSSAIComplianceChecker.__init__
Constructed ==
    /\ issues = <<>>
    /\ warnings = <<>>
    /\ info = <<>>
    /\ result = None
    /\ indicators = None
    /\ response = None
    /\ db = EmptyDb
    /\ pc = "constructed"

InitFOP ==
    /\ nutrients = SeededNutrients
    /\ ingredient_nutrients = <<>>
    /\ recipe = DefaultRecipe
    /\ \E choice \in [DOMAIN FopChecks -> FopChoices] : nutrition_data = FopInput(choice)
    /\ Constructed

\* A call of get_fop_indicators on the checker.
CallGetFopIndicators ==
    /\ pc \in {"constructed", "checked"}
    /\ indicators' = GetFopIndicators(nutrition_data)
    /\ pc' = "fop"
    /\ UNCHANGED <<nutrients, ingredient_nutrients, recipe, nutrition_data,
                   issues, warnings, info, result, response, db>>

NextFOP == CallGetFopIndicators

SpecFOP == InitFOP /\ [][NextFOP]_vars

-----------------------------------------------------------------------------
(* The rule battery on a recipe and a nutrition result: SpecCheck          *)

\* At most this many of the catalog's nutrients are left out of a non-empty
\* nutrition result.
MaxMissing == 2

\* The mandatory names the specification's scenario leaves out.
ScenarioMissing == {"Trans Fat", "Added Sugars", "Dietary Fibre"}

MandatoryIds == {NutrientId(MANDATORY_NUTRIENTS[k]) : k \in DOMAIN MANDATORY_NUTRIENTS}

\* The nutrient ids of a nutrition result: the catalog less a few mandatory
\* nutrients, the catalog less the scenario's three, or none at all.
PresentSets ==
    {DOMAIN SeededNutrients \ d :
        d \in {x \in SUBSET MandatoryIds : Cardinality(x) <= MaxMissing}}
    \cup {DOMAIN SeededNutrients \ {NutrientId(n) : n \in ScenarioMissing}}
    \cup {{}}

\* Per-100g values come as a multiple of a base value per nutrient: half the
\* threshold for the FOP nutrients, so that the multiples 0, 1 and 3 give
\* nothing, a LOW value and a HIGH one.
Magnitudes == {0, 1, 3}

BasePer100g(nid) ==
    LET name == SeededNutrients[nid].name
    IN  IF \E k \in DOMAIN FopChecks : FopChecks[k].name = name
        THEN RMul(FopChecks[CHOOSE k \in DOMAIN FopChecks : FopChecks[k].name = name].threshold,
                  Half)
        ELSE IF name = "Trans Fat" THEN R(1)
        ELSE R(10)

CheckInput(present, m) == [nid \in present |-> Entry(nid, RMul(R(m), BasePer100g(nid)))]

\* serving_size and servings_per_pack are floats the request supplies.
ServingValues == {Zero, R(100)}
ServingUnits == {"", "g"}
AllergenInfos == {"", "Contains milk"}
\* Nothing, three digits, and fourteen digits between two blanks.
Licenses == {<<>>, <<"1", "2", "3">>, <<" ">> \o Rep("7", 14) \o <<" ">>}
IngredientRows == {<<>>, [i \in {"Rice"} |-> R(100)]}

CheckRecipes ==
    {RecipeRow(size, unit, per_pack, allergens, license, rows) :
        size \in ServingValues, unit \in ServingUnits, per_pack \in ServingValues,
        allergens \in AllergenInfos, license \in Licenses, rows \in IngredientRows}

InitCheck ==
    /\ nutrients = SeededNutrients
    /\ ingredient_nutrients = <<>>
    /\ recipe \in CheckRecipes
    /\ \E present \in PresentSets, m \in Magnitudes :
            nutrition_data = CheckInput(present, m)
    /\ Constructed

\* A call of check_all on the checker: the lists are emptied and refilled.
CallCheckAll ==
    /\ pc \in {"constructed", "checked"}
    /\ LET r == CheckAllOn(Checker(issues, warnings, info), recipe, nutrition_data)
       IN  /\ issues' = r.chk.issues
           /\ warnings' = r.chk.warnings
           /\ info' = r.chk.info
           /\ result' = [is_compliant |-> r.is_compliant, notes |-> r.notes]
    /\ pc' = "checked"
    /\ UNCHANGED <<nutrients, ingredient_nutrients, recipe, nutrition_data, indicators,
                   response, db>>

NextCheck == CallCheckAll

SpecCheck == InitCheck /\ [][NextCheck]_vars

-----------------------------------------------------------------------------
(* The declarations of a recipe under the rule battery: SpecDeclarations   *)

\* serving_size and servings_per_pack: float columns that are never NULL and
\* take what the request supplies, a negative number, zero, or a positive one.
DeclaredServings == {R(0 - 1), Zero, Rat(1, 10), R(100)}

\* serving_unit: a text column.
DeclaredUnits == {"", "g", "ml"}

\* fssai_license: nothing, a blank, three digits, 13, 14 and 15 digits,
\* fourteen digits between two blanks, and fourteen characters that are not
\* all digits (a letter at the end, a blank in the middle).
DeclaredLicenses ==
    {<<>>, <<" ">>, <<"1", "2", "3">>, Rep("7", 13), Rep("7", 14), Rep("7", 15),
     <<" ">> \o Rep("7", 14) \o <<" ">>, Rep("7", 13) \o <<"A">>,
     Rep("7", 6) \o <<" ">> \o Rep("7", 7)}

DeclaredRecipes ==
    {RecipeRow(size, unit, per_pack, "", license, [i \in {"Rice"} |-> R(100)]) :
        size \in DeclaredServings, unit \in DeclaredUnits,
        per_pack \in DeclaredServings, license \in DeclaredLicenses}

\* A recipe with its declarations and a full nutrition result, and a checker
\* constructed on them.
InitDeclarations ==
    /\ nutrients = SeededNutrients
    /\ ingredient_nutrients = <<>>
    /\ recipe \in DeclaredRecipes
    /\ nutrition_data = CheckInput(DOMAIN SeededNutrients, 1)
    /\ Constructed

NextDeclarations == CallCheckAll

SpecDeclarations == InitDeclarations /\ [][NextDeclarations]_vars

-----------------------------------------------------------------------------
(* Trans fat against total fat under the rule battery: SpecTransFat        *)

\* per_100g of the Total Fat entry: no entry, a negative total (weights may
\* be negative), nothing, 1 g and 50 g.
TotalFatValues == {None, R(0 - 1), Zero, R(1), R(50)}

\* per_100g of the Trans Fat entry: no entry, the hundredths from -0.01 g up
\* to and around 0.02 g (2 % of 1 g), and the hundredths around 1 g (2 % of
\* 50 g).
TransFatValues ==
    {None}
    \cup {Rat(k, 100) : k \in (0 - 1)..(2 + MaxDelta)}
    \cup {Rat(100 + d, 100) : d \in (0 - MaxDelta)..MaxDelta}

\* A nutrition result with the given Trans Fat and Total Fat entries, among
\* the other nutrients of the catalog or alone.
TransFatInput(trans, total, rest) ==
    LET given == [n \in {"Trans Fat", "Total Fat"} |->
                    IF n = "Trans Fat" THEN trans ELSE total]
        ids == {nid \in DOMAIN SeededNutrients :
                    IF SeededNutrients[nid].name \in DOMAIN given
                    THEN given[SeededNutrients[nid].name] # None
                    ELSE rest}
    IN  [nid \in ids |->
            Entry(nid, IF SeededNutrients[nid].name \in DOMAIN given
                       THEN given[SeededNutrients[nid].name]
                       ELSE BasePer100g(nid))]

InitTransFat ==
    /\ nutrients = SeededNutrients
    /\ ingredient_nutrients = <<>>
    /\ recipe = DefaultRecipe
    /\ \E trans \in TransFatValues, total \in TotalFatValues, rest \in BOOLEAN :
            nutrition_data = TransFatInput(trans, total, rest)
    /\ Constructed

NextTransFat == CallCheckAll

SpecTransFat == InitTransFat /\ [][NextTransFat]_vars

-----------------------------------------------------------------------------
(* Aggregation of a stored recipe: SpecNutrition                           *)

\* Ingredient weights run from -1 g to this many grams.
MaxWeight == 2

SeededIngredients == <<"Rice", "Salt">>
IngredientNames == {SeededIngredients[k] : k \in DOMAIN SeededIngredients}

\* weight_grams of a stored RecipeIngredient row.  api_batch_upload stores
\* float(parts[1]) as it comes, so a stored weight may be zero or negative.
Weights == {R(w) : w \in (0 - 1)..MaxWeight}

\* value_per_100g of a stored IngredientNutrient row (never negative).
ValuesPer100g == {Rat(7, 10), R(15)}

\* A function on S with values in V, defined where choice is not None.
Partial(choice) == [x \in {y \in DOMAIN choice : choice[y] # None} |-> choice[x]]

\* Total Fat with its seeded daily value, and Sodium with the seeded daily
\* value, none, or zero (the admin edits the field).
NutritionCatalogs ==
    {<<Nutrient("Total Fat", R(67)), Nutrient("Sodium", dv)>> : dv \in {None, Zero, R(2300)}}

ServingSizes == {R(30), R(100)}

InitNutrition ==
    /\ nutrients \in NutritionCatalogs
    /\ \E choice \in [IngredientNames \X (1..2) -> ValuesPer100g \cup {None}] :
            ingredient_nutrients = Partial(choice)
    /\ \E choice \in [IngredientNames -> Weights \cup {None}], size \in ServingSizes :
            recipe = RecipeRow(size, "g", R(1), "", <<>>, Partial(choice))
    /\ nutrition_data = None
    /\ issues = <<>>
    /\ warnings = <<>>
    /\ info = <<>>
    /\ result = None
    /\ indicators = None
    /\ response = None
    /\ db = EmptyDb
    /\ pc = "stored"

\* A call of recipe.calculate_nutrition() on the stored recipe.
CallCalculateNutrition ==
    /\ pc = "stored"
    /\ nutrition_data' = CalculateNutrition(recipe, ingredient_nutrients, nutrients)
    /\ pc' = "calculated"
    /\ UNCHANGED <<nutrients, ingredient_nutrients, recipe, issues, warnings, info,
                   result, indicators, response, db>>

\* The recipe's rows as the front end posts them, in ingredient order.
PostedItems(rows) ==
    LET order == SelectSeq(SeededIngredients, LAMBDA i : i \in DOMAIN rows)
    IN  [k \in DOMAIN order |-> [ingredient_id |-> order[k], weight_grams |-> rows[order[k]]]]

\* A POST to api_live_calculate with the recipe's rows and serving size.
CallLiveCalculate ==
    /\ pc = "stored"
    /\ response' = LiveCalculate(PostedItems(recipe.ingredients), recipe.serving_size,
                                 ingredient_nutrients, nutrients)
    /\ pc' = "live"
    /\ UNCHANGED <<nutrients, ingredient_nutrients, recipe, nutrition_data, issues,
                   warnings, info, result, indicators, db>>

\* FSSAIComplianceChecker(recipe, nutrition_data) on the result calculated.
ConstructChecker ==
    /\ pc = "calculated"
    /\ issues' = <<>>
    /\ warnings' = <<>>
    /\ info' = <<>>
    /\ pc' = "constructed"
    /\ UNCHANGED <<nutrients, ingredient_nutrients, recipe, nutrition_data, result,
                   indicators, response, db>>

\* A second call of check_all on the checker object of the first.
CallCheckAllAgain ==
    /\ pc = "checked"
    /\ LET r == CheckAllOn(Checker(issues, warnings, info), recipe, nutrition_data)
       IN  /\ issues' = r.chk.issues
           /\ warnings' = r.chk.warnings
           /\ info' = r.chk.info
           /\ result' = [is_compliant |-> r.is_compliant, notes |-> r.notes]
    /\ pc' = "rechecked"
    /\ UNCHANGED <<nutrients, ingredient_nutrients, recipe, nutrition_data, indicators,
                   response, db>>

NextNutrition ==
    \/ CallCalculateNutrition
    \/ CallLiveCalculate
    \/ ConstructChecker
    \/ CallCheckAll
    \/ CallCheckAllAgain

SpecNutrition == InitNutrition /\ [][NextNutrition]_vars

-----------------------------------------------------------------------------
(* Claims on the front-of-pack classifier                                  *)

\* The four FOP nutrients and their thresholds, as the specification's table
\* gives them.
FopTable ==
    << <<"Total Fat", Rat(175, 10)>>, <<"Saturated Fat", R(5)>>,
       <<"Total Sugars", Rat(225, 10)>>, <<"Sodium", R(600)>> >>

\* The per-100g value the nutrition result holds for a nutrient name, 0 when
\* it holds none.
InputPer100g(name) ==
    IF \E nid \in DOMAIN nutrition_data : nutrition_data[nid].nutrient.name = name
    THEN nutrition_data[CHOOSE nid \in DOMAIN nutrition_data :
                            nutrition_data[nid].nutrient.name = name].per_100g
    ELSE Zero

LevelRank(level) == CASE level = "LOW" -> 0 [] level = "MEDIUM" -> 1 [] level = "HIGH" -> 2

\* C3: each FOP nutrient with threshold T and per-100g value v (0 when absent)
\* is HIGH/red when v > T, MEDIUM/amber when T*0.5 < v <= T and LOW/green when
\* v <= T*0.5.
C3_FopThresholdRule ==
    pc = "fop" =>
        \A k \in DOMAIN FopTable :
            LET T == FopTable[k][2]
                v == InputPer100g(FopTable[k][1])
                i == indicators[k]
            IN  /\ i.nutrient = FopTable[k][1]
                /\ i.value = v
                /\ RGt(v, T) => i.level = "HIGH" /\ i.color = "red"
                /\ (RGt(v, RMul(T, Half)) /\ RLe(v, T)) => i.level = "MEDIUM" /\ i.color = "amber"
                /\ RLe(v, RMul(T, Half)) => i.level = "LOW" /\ i.color = "green"

\* C3 witness: a classified result with Total Fat exactly at its threshold
\* (MEDIUM), Saturated Fat exactly at half of its threshold (LOW), Total Sugars
\* above its threshold (HIGH) and no Sodium entry (LOW).
C3_Witness ==
    /\ pc = "fop"
    /\ InputPer100g("Total Fat") = Rat(175, 10) /\ indicators[1].level = "MEDIUM"
    /\ InputPer100g("Saturated Fat") = Rat(25, 10) /\ indicators[2].level = "LOW"
    /\ RGt(InputPer100g("Total Sugars"), Rat(225, 10)) /\ indicators[3].level = "HIGH"
    /\ NutrientId("Sodium") \notin DOMAIN nutrition_data /\ indicators[4].level = "LOW"

\* C4: FOP monotonicity: for a fixed FOP nutrient, a value b at or above the
\* classified value a gets a level at or above a's level, and a value at or
\* below a gets a level at or below it (LOW < MEDIUM < HIGH).
C4_FopMonotone ==
    pc = "fop" =>
        \A k \in DOMAIN FopTable :
            \A b \in FopValues(FopTable[k][2]) :
                LET a  == InputPer100g(FopTable[k][1])
                    la == LevelRank(indicators[k].level)
                    lb == LevelRank(FopLevel(b, FopChecks[k].threshold).level)
                IN  /\ RLe(a, b) => la <= lb
                    /\ RLe(b, a) => lb <= la

\* C4 witness: a classified result whose Sodium value lies strictly between
\* a smaller value classified LOW and a larger one classified HIGH.
C4_Witness ==
    /\ pc = "fop"
    /\ indicators[4].level = "MEDIUM"
    /\ \E a, b \in FopValues(FopTable[4][2]) :
        /\ RLt(a, indicators[4].value) /\ RLt(indicators[4].value, b)
        /\ FopLevel(a, FopChecks[4].threshold).level = "LOW"
        /\ FopLevel(b, FopChecks[4].threshold).level = "HIGH"

\* C5: get_fop_indicators returns exactly four indicators, in the order
\* Total Fat, Saturated Fat, Total Sugars, Sodium, whatever the values.
C5_FopFixedOrder ==
    pc = "fop" =>
        /\ Len(indicators) = 4
        /\ \A k \in 1..4 : indicators[k].nutrient = FopTable[k][1]

\* C5 witness: four indicators for an empty nutrition result.
C5_Witness ==
    /\ pc = "fop"
    /\ DOMAIN nutrition_data = {}
    /\ Len(indicators) = 4

-----------------------------------------------------------------------------
(* Claims on the rule battery                                              *)

\* The ten mandatory nutrient names, as the specification lists them.
TenMandatoryNames ==
    {"Energy", "Total Fat", "Saturated Fat", "Trans Fat", "Total Carbohydrate",
     "Total Sugars", "Added Sugars", "Protein", "Sodium", "Dietary Fibre"}

\* The names of the nutrition result's entries.
PresentNames == {nutrition_data[nid].nutrient.name : nid \in DOMAIN nutrition_data}

\* The positions of the issues whose message starts with text.
IssuesWith(text) == {k \in DOMAIN issues : issues[k][1] = text}

\* C1: check_all returns is_compliant = True exactly when the issues list it
\* produced is empty; warnings and info entries do not enter the verdict.
C1_VerdictIffNoIssues ==
    pc = "checked" => (result.is_compliant <=> issues = <<>>)

\* C1 witness: a compliant verdict given together with warnings and info.
C1_Witness ==
    /\ pc = "checked"
    /\ result.is_compliant
    /\ issues = <<>>
    /\ warnings # <<>>
    /\ info # <<>>

\* C2: a missing mandatory name makes the verdict False, and there is exactly
\* one MISSING MANDATORY NUTRIENT issue per absent mandatory name and none for
\* a name that is present.
C2_MissingMandatory ==
    pc = "checked" =>
        LET absent == TenMandatoryNames \ PresentNames
            found  == IssuesWith("MISSING MANDATORY NUTRIENT")
        IN  /\ absent # {} => ~result.is_compliant
            /\ Cardinality(found) = Cardinality(absent)
            /\ \A mn \in absent : Cardinality({k \in found : issues[k][2] = mn}) = 1
            /\ \A k \in found : issues[k][2] \in absent

\* C2 witness: the scenario's result without Trans Fat, Added Sugars and
\* Dietary Fibre, checked, with three such issues.
C2_Witness ==
    /\ pc = "checked"
    /\ TenMandatoryNames \ PresentNames = ScenarioMissing
    /\ Cardinality(IssuesWith("MISSING MANDATORY NUTRIENT")) = 3
    /\ ~result.is_compliant

\* The checked nutrition result with every per-100g value replaced by the
\* multiple m of the nutrient's base value.
WithMagnitude(nd, m) ==
    [nid \in DOMAIN nd |-> [nd[nid] EXCEPT !.per_100g = RMul(R(m), BasePer100g(nid))]]

\* The inputs that differ from the checked ones in exactly one of
\* allergen_info, fssai_license, servings_per_pack and the magnitudes of the
\* per-100g values (same nutrient names, serving_size, serving_unit and
\* ingredient rows).  The checked inputs are a product over these four, so
\* any two inputs that differ only in them are joined by at most four such
\* steps, each between checked inputs.
WarningOnlyVariants ==
    {[rec |-> [recipe EXCEPT !.allergen_info = a], nd |-> nutrition_data] :
        a \in AllergenInfos \ {recipe.allergen_info}}
    \cup {[rec |-> [recipe EXCEPT !.fssai_license = l], nd |-> nutrition_data] :
        l \in Licenses \ {recipe.fssai_license}}
    \cup {[rec |-> [recipe EXCEPT !.servings_per_pack = spp], nd |-> nutrition_data] :
        spp \in ServingValues \ {recipe.servings_per_pack}}
    \cup {[rec |-> recipe, nd |-> WithMagnitude(nutrition_data, m)] : m \in Magnitudes}

\* C6: a run whose input differs from the checked one only in a warning-only
\* input returns the same is_compliant and the same issues list.
C6_WarningOnlyInputs ==
    pc = "checked" =>
        \A alt \in WarningOnlyVariants :
            LET r == CheckAllOf(alt.rec, alt.nd)
            IN  /\ r.chk.issues = issues
                /\ r.is_compliant = result.is_compliant

\* C6 witness: a checked run with issues, and an alternative that differs
\* from it in the per-100g magnitudes alone and produces other warnings.
C6_Witness ==
    /\ pc = "checked"
    /\ issues # <<>>
    /\ \E alt \in WarningOnlyVariants :
        /\ alt.rec = recipe
        /\ \E nid \in DOMAIN nutrition_data :
                alt.nd[nid].per_100g # nutrition_data[nid].per_100g
        /\ CheckAllOf(alt.rec, alt.nd).chk.warnings # warnings

-----------------------------------------------------------------------------
(* Claims on the aggregation                                               *)

\* The sum over the recipe's ingredient rows of weight_grams/100 times the
\* ingredient's value_per_100g for nutrient nid, in exact arithmetic.
MassSum(nid) ==
    LET rows == recipe.ingredients
        with == {i \in DOMAIN rows : <<i, nid>> \in DOMAIN ingredient_nutrients}
    IN  SumOver(with,
                [i \in with |->
                    Rat(rows[i][1] * ingredient_nutrients[<<i, nid>>][1],
                        rows[i][2] * 100 * ingredient_nutrients[<<i, nid>>][2])])

\* C7: the total calculate_nutrition accumulates for a nutrient equals, before
\* rounding, the exact sum of weight_grams/100 * value_per_100g over the
\* recipe's ingredient rows, and the reported total_value is that sum rounded
\* to two decimals.
C7_MassConservation ==
    pc = "calculated" =>
        \A nid \in DOMAIN nutrition_data :
            /\ RawTotal(recipe.ingredients, ingredient_nutrients, nid) = MassSum(nid)
            /\ nutrition_data[nid].total_value = Round(MassSum(nid), 2)

\* C7 witness: a nutrient two ingredient rows contribute to, whose exact sum
\* has more than two decimals.
C7_Witness ==
    /\ pc = "calculated"
    /\ \E nid \in DOMAIN nutrition_data :
        /\ \A i \in IngredientNames :
                i \in DOMAIN recipe.ingredients /\ <<i, nid>> \in DOMAIN ingredient_nutrients
        /\ Round(MassSum(nid), 2) # MassSum(nid)
        /\ nutrition_data[nid].total_value = Round(MassSum(nid), 2)

\* The ingredients of the recipe that have no IngredientNutrient row.
BareIngredients ==
    {i \in DOMAIN recipe.ingredients :
        \A nid \in DOMAIN nutrients : <<i, nid>> \notin DOMAIN ingredient_nutrients}

\* The recipe without its row for ingredient i.
WithoutRow(i) ==
    [recipe EXCEPT !.ingredients = [j \in DOMAIN recipe.ingredients \ {i} |->
                                        recipe.ingredients[j]]]

\* C8: a nutrient is a key of the result exactly when an ingredient row of the
\* recipe has an IngredientNutrient row for it; a row of an ingredient without
\* nutrient rows adds no key and changes no total.
C8_SparseUnion ==
    pc = "calculated" =>
        /\ DOMAIN nutrition_data =
                {nid \in DOMAIN nutrients :
                    \E i \in DOMAIN recipe.ingredients :
                        <<i, nid>> \in DOMAIN ingredient_nutrients}
        /\ \A i \in BareIngredients :
                LET without == CalculateNutrition(WithoutRow(i), ingredient_nutrients, nutrients)
                IN  /\ DOMAIN without = DOMAIN nutrition_data
                    /\ \A nid \in DOMAIN without :
                            without[nid].total_value = nutrition_data[nid].total_value

\* C8 witness: a result with one of the catalog's two nutrients for a recipe
\* of two rows, one of an ingredient without nutrient rows.
C8_Witness ==
    /\ pc = "calculated"
    /\ DOMAIN recipe.ingredients = IngredientNames
    /\ BareIngredients # {}
    /\ Cardinality(DOMAIN nutrition_data) = 1

\* C9: percent_dv is present exactly when the nutrient's daily_value is set and
\* non-zero, in calculate_nutrition's result and in api_live_calculate's.
C9_PercentDvDefined ==
    /\ pc = "calculated" =>
            \A nid \in DOMAIN nutrition_data :
                nutrition_data[nid].percent_dv # None
                    <=> (nutrients[nid].daily_value # None /\ nutrients[nid].daily_value # Zero)
    /\ pc = "live" =>
            \A k \in DOMAIN response.nutrition :
                LET nid == response.nutrition[k].nutrient_id
                IN  response.nutrition[k].percent_dv # None
                        <=> (nutrients[nid].daily_value # None /\ nutrients[nid].daily_value # Zero)

\* C9 witness: a result with Sodium, whose daily value is zero, without a
\* percent_dv, and with Total Fat with one.
C9_Witness ==
    /\ pc = "calculated"
    /\ DOMAIN nutrition_data = {1, 2}
    /\ nutrients[2].daily_value = Zero
    /\ nutrition_data[2].percent_dv = None
    /\ nutrition_data[1].percent_dv # None

\* The factors the weights are scaled by.
Scales == {Rat(1, 2), R(2), R(3)}

\* The recipe with every ingredient weight multiplied by k.
Scaled(k) ==
    [recipe EXCEPT !.ingredients = [i \in DOMAIN recipe.ingredients |->
                                        RMul(k, recipe.ingredients[i])]]

\* calculate_nutrition of the scaled recipe gives the per_100g, per_serving
\* and percent_dv values of the result at hand.
SameRelativeValues(k) ==
    LET scaled == CalculateNutrition(Scaled(k), ingredient_nutrients, nutrients)
    IN  /\ DOMAIN scaled = DOMAIN nutrition_data
        /\ \A nid \in DOMAIN scaled :
            /\ scaled[nid].per_100g = nutrition_data[nid].per_100g
            /\ scaled[nid].per_serving = nutrition_data[nid].per_serving
            /\ scaled[nid].percent_dv = nutrition_data[nid].percent_dv

\* C10: scaling every ingredient weight of a stored recipe by the same
\* positive k leaves every per_100g, per_serving and percent_dv unchanged.
C10_ScaleInvariant ==
    pc = "calculated" => \A k \in Scales : SameRelativeValues(k)

\* C10 for the recipes the data model allows (every weight_grams > 0): there
\* the scaling leaves the three values unchanged.
C10_ScaleInvariantPositiveWeights ==
    (pc = "calculated" /\ \A i \in DOMAIN recipe.ingredients : RGt(recipe.ingredients[i], Zero))
        => \A k \in Scales : SameRelativeValues(k)

-----------------------------------------------------------------------------
(* Claims on degenerate recipes and repeated checks                        *)

\* One missing-nutrient issue per mandatory name, in the order of the list.
AllMissingIssues ==
    [k \in 1..Len(MANDATORY_NUTRIENTS) |->
        <<"MISSING MANDATORY NUTRIENT", MANDATORY_NUTRIENTS[k]>>]

\* C11: for a recipe with no ingredient rows calculate_nutrition returns an
\* empty mapping, and check_all on it reports the ten missing-nutrient issues
\* and, after them, the INGREDIENT LIST issue; the verdict is not compliant.
C11_EmptyRecipe ==
    (DOMAIN recipe.ingredients = {}) =>
        /\ pc \in {"calculated", "constructed", "checked", "rechecked"}
                => nutrition_data = [nid \in {} |-> None]
        /\ pc \in {"checked", "rechecked"} =>
                /\ Len(MANDATORY_NUTRIENTS) = 10
                /\ issues = AllMissingIssues \o <<<<"INGREDIENT LIST", "">>>>
                /\ result.is_compliant = FALSE

\* C11 witness: check_all has run on the empty result of a recipe without rows.
C11_Witness ==
    /\ pc = "checked"
    /\ DOMAIN recipe.ingredients = {}
    /\ DOMAIN nutrition_data = {}
    /\ Len(issues) = 11
    /\ issues[11][1] = "INGREDIENT LIST"
    /\ result.is_compliant = FALSE

\* C12: the divisor of the aggregation is the sum of the ingredient weights,
\* or 1 when that sum is zero; it is never zero, and calculate_nutrition and
\* api_live_calculate return a result (no division by zero is raised) for
\* every ingredient list.
C12_NoDivisionByZero ==
    /\ pc = "calculated" =>
            LET tw == TotalWeight(recipe.ingredients)
            IN  /\ OrOne(tw) # Zero
                /\ OrOne(tw) = IF tw = Zero THEN R(1) ELSE tw
    /\ pc = "calculated" =>
            /\ nutrition_data # ZeroDivisionError
            /\ \A nid \in DOMAIN nutrition_data : nutrition_data[nid].per_100g[2] > 0
    /\ pc = "live" =>
            /\ DOMAIN response = {"nutrition", "fop_indicators", "total_weight"}
            /\ \A k \in DOMAIN response.nutrition : response.nutrition[k].per_100g[2] > 0

\* C12 witness: a result with entries for a recipe whose weights sum to zero.
C12_Witness ==
    /\ pc = "calculated"
    /\ DOMAIN recipe.ingredients # {}
    /\ TotalWeight(recipe.ingredients) = Zero
    /\ DOMAIN nutrition_data # {}
    /\ nutrition_data # ZeroDivisionError

\* C13: a second check_all on the same checker object leaves is_compliant,
\* the notes, issues, warnings and info as the first call left them, and they
\* are those of a check_all on a newly constructed checker for the same input.
C13_CheckAllIdempotent ==
    [][(pc = "checked" /\ pc' = "rechecked") =>
            /\ issues' = issues
            /\ warnings' = warnings
            /\ info' = info
            /\ result' = result
            /\ LET fresh == CheckAllOf(recipe, nutrition_data)
               IN  /\ issues' = fresh.chk.issues
                   /\ warnings' = fresh.chk.warnings
                   /\ info' = fresh.chk.info
                   /\ result'.is_compliant = fresh.is_compliant]_vars

\* C13 witness: check_all has run twice on a checker whose three lists are
\* all non-empty.
C13_Witness ==
    /\ pc = "rechecked"
    /\ issues # <<>>
    /\ warnings # <<>>
    /\ info # <<>>

-----------------------------------------------------------------------------
(* The stored recipe: its tables and the views that write them             *)
(*                                                                         *)
(* db holds the rows of one recipe (one primary key): the Recipe row, its  *)
(* RecipeIngredient rows in insertion order, its GeneratedLabel rows and   *)
(* its RecipeVersion rows.  The views touch no row of another recipe, so   *)
(* one recipe stands for each.  Requests run one after another, each       *)
(* statement is committed as it runs (Django's autocommit), and PDF        *)
(* rendering succeeds.                                                     *)

\* The values per 100 g the seed command gives an ingredient for the ten
\* mandatory nutrients, in tenths.
SeedValues(energy, fat, sat, trans, carb, sugars, added, protein, sodium, fibre) ==
    [n \in {"Energy", "Total Fat", "Saturated Fat", "Trans Fat", "Total Carbohydrate",
            "Total Sugars", "Added Sugars", "Protein", "Sodium", "Dietary Fibre"} |->
        Rat(CASE n = "Energy" -> energy
              [] n = "Total Fat" -> fat
              [] n = "Saturated Fat" -> sat
              [] n = "Trans Fat" -> trans
              [] n = "Total Carbohydrate" -> carb
              [] n = "Total Sugars" -> sugars
              [] n = "Added Sugars" -> added
              [] n = "Protein" -> protein
              [] n = "Sodium" -> sodium
              [] OTHER -> fibre, 10)]

\* The seeded ingredients of the stored recipes: Rice (Raw, Milled), Salt,
\* Oats, Butter, Wheat Flour (Atta), Maida (Refined Flour) and Chickpea
\* (Kabuli Chana).
SeedIngredients ==
    [i \in {"Rice", "Salt", "Oats", "Butter", "Wheat", "Maida", "Chickpea"} |->
        CASE i = "Rice" -> SeedValues(3450, 5, 1, 0, 782, 1, 0, 68, 50, 2)
          [] i = "Salt" -> SeedValues(0, 0, 0, 0, 0, 0, 0, 0, 387580, 0)
          [] i = "Oats" -> SeedValues(3890, 69, 12, 0, 663, 0, 0, 169, 20, 106)
          [] i = "Butter" -> SeedValues(7170, 810, 514, 33, 1, 1, 0, 9, 5760, 0)
          [] i = "Wheat" -> SeedValues(3410, 15, 3, 0, 712, 4, 0, 121, 20, 125)
          [] i = "Maida" -> SeedValues(3480, 9, 2, 0, 741, 3, 0, 110, 20, 27)
          [] OTHER -> SeedValues(3640, 60, 6, 0, 613, 100, 0, 190, 640, 155)]

\* The IngredientNutrient rows the seed command stores for these ingredients:
\* a row for every mandatory nutrient, zero values included.
StoredIngredientNutrients ==
    [key \in (DOMAIN SeedIngredients)
                \X {NutrientId(n) : n \in DOMAIN SeedIngredients["Rice"]} |->
        SeedIngredients[key[1]][SeededNutrients[key[2]].name]]

\* The Recipe row a creating view stores from a request that gives a name
\* only: the defaults of body.get.
StoredRecipe ==
    [serving_size |-> R(100), serving_unit |-> "g", servings_per_pack |-> R(1),
     allergen_info |-> "", fssai_license |-> <<>>]

\* A RecipeIngredient row of the recipe.
Row(ingredient, weight_grams) == [ingredient |-> ingredient, weight_grams |-> weight_grams]

\* RecipeIngredient.objects.filter(recipe=recipe, ingredient=ing).exists()
HasRow(rows, ingredient) == \E k \in DOMAIN rows : rows[k].ingredient = ingredient

\* A plausible slip: the constraint missing from the table.
UniqueTogetherDropped(rows, ingredient) == TRUE

\* unique_together = ('recipe', 'ingredient'): the insert is admitted.
UniqueTogether(rows, ingredient) == ~HasRow(rows, ingredient)

\* The loop of api_recipe_create and api_recipe_update over the posted
\* items: an item of weight <= 0 is skipped, the others are inserted with
\* objects.create; the IntegrityError of a refused insert is none of the
\* exceptions the loop catches and ends the request.
RECURSIVE CreateCheckedRows(_, _)
CreateCheckedRows(rows, items) ==
    IF items = <<>> THEN [rows |-> rows, error |-> FALSE]
    ELSE LET item == Head(items)
         IN  IF RLe(item.weight_grams, Zero)
             THEN CreateCheckedRows(rows, Tail(items))
             ELSE IF ~UniqueTogether(rows, item.ingredient)
             THEN [rows |-> rows, error |-> TRUE]
             ELSE CreateCheckedRows(Append(rows, Row(item.ingredient, item.weight_grams)),
                                    Tail(items))

\* The loop of api_auto_analyze: an item of weight <= 0 is skipped, the
\* others go through get_or_create (the first weight of an ingredient stays).
RECURSIVE GetOrCreateCheckedRows(_, _)
GetOrCreateCheckedRows(rows, items) ==
    IF items = <<>> THEN rows
    ELSE LET item == Head(items)
         IN  IF RLe(item.weight_grams, Zero) \/ HasRow(rows, item.ingredient)
             THEN GetOrCreateCheckedRows(rows, Tail(items))
             ELSE GetOrCreateCheckedRows(Append(rows, Row(item.ingredient, item.weight_grams)),
                                         Tail(items))

\* The loops of api_batch_upload and of recipe_parse_confirm over its matched
\* items: objects.create with the weight as it comes.
RECURSIVE CreateRows(_, _)
CreateRows(rows, items) ==
    IF items = <<>> THEN [rows |-> rows, error |-> FALSE]
    ELSE LET item == Head(items)
         IN  IF ~UniqueTogether(rows, item.ingredient)
             THEN [rows |-> rows, error |-> TRUE]
             ELSE CreateRows(Append(rows, Row(item.ingredient, item.weight_grams)),
                             Tail(items))

\* The loop of recipe_parse_confirm over the manually mapped items:
\* get_or_create with the weight as it comes.
RECURSIVE GetOrCreateRows(_, _)
GetOrCreateRows(rows, items) ==
    IF items = <<>> THEN rows
    ELSE LET item == Head(items)
         IN  IF HasRow(rows, item.ingredient)
             THEN GetOrCreateRows(rows, Tail(items))
             ELSE GetOrCreateRows(Append(rows, Row(item.ingredient, item.weight_grams)),
                                  Tail(items))

\* The "auto-detect allergens" step: a blank allergen_info is replaced when
\* the detector (keywords, then the AI service) reports an allergen.
DetectAllergens(rec, detected) ==
    IF rec.allergen_info = "" /\ detected
    THEN [rec EXCEPT !.allergen_info = "Contains: Sesame"]
    ELSE rec

\* The recipe object the aggregator and the checker are given: the Recipe row
\* with recipe.ingredients, the rows of one ingredient taken together (a
\* contribution is linear in the weight).
RecipeObject(d) ==
    LET present == {d.rows[k].ingredient : k \in DOMAIN d.rows}
        Of(i) == {k \in DOMAIN d.rows : d.rows[k].ingredient = i}
    IN  RecipeRow(d.recipe.serving_size, d.recipe.serving_unit, d.recipe.servings_per_pack,
                  d.recipe.allergen_info, d.recipe.fssai_license,
                  [i \in present |->
                        SumOver(Of(i), [k \in Of(i) |-> d.rows[k].weight_grams])])

\* nutrition_data = recipe.calculate_nutrition(); checker = FSSAIComplianceChecker(
\* recipe, nutrition_data); checker.check_all(); checker.get_fop_indicators()
Analysis(d) ==
    CHOOSE a \in
        {[nutrition_data |-> nd, is_compliant |-> chk.is_compliant,
          compliance_notes |-> chk.notes, fop_indicators |-> GetFopIndicators(nd)] :
            <<nd, chk>> \in
                {<<n, CheckAllOf(RecipeObject(d), n)>> :
                    n \in {CalculateNutrition(RecipeObject(d), ingredient_nutrients,
                                               nutrients)}}} : TRUE

\* A GeneratedLabel row.  file is what the PDF at file_path was rendered from,
\* None while file_path is blank.
GeneratedLabel(format, nutrition_snapshot, is_compliant, notes, file) ==
    [format |-> format, nutrition_data |-> nutrition_snapshot,
     is_fssai_compliant |-> is_compliant, compliance_notes |-> notes,
     file_path |-> IF file = None THEN "" ELSE "label.pdf", file |-> file]

\* A plausible slip: the number of the new version taken from the oldest row.
NextVersionNumberFromOldest(versions) ==
    IF versions = <<>> THEN 1 ELSE versions[1].version_number + 1

\* last_ver = recipe.versions.order_by('-version_number').first();
\* next_ver = (last_ver.version_number + 1) if last_ver else 1
NextVersionNumber(versions) ==
    IF versions = <<>> THEN 1
    ELSE LET last_ver == CHOOSE v \in {versions[k] : k \in DOMAIN versions} :
                            \A k \in DOMAIN versions : versions[k].version_number <= v.version_number
         IN  last_ver.version_number + 1

\* _create_version_snapshot: the RecipeVersion rows after the insert.
CreateVersionSnapshot(versions, nutrition_list, is_compliant) ==
    Append(versions, [version_number |-> NextVersionNumber(versions),
                      snapshot |-> nutrition_list,
                      is_compliant |-> is_compliant])

-----------------------------------------------------------------------------
(* Ingestion of a recipe: SpecIngest                                       *)

\* A posted ingredient list has at most this many items.
MaxItems == 2

\* The weights a request carries: negative, zero and two positive ones.
PostedWeights == {R(0 - 1), Zero, R(1), R(2)}

\* An item of a posted list: an ingredient of the database and a weight.
PostedItem == {Row(i, w) : i \in IngredientNames, w \in PostedWeights}

RECURSIVE ListsOf(_, _)
ListsOf(S, n) ==
    IF n = 0 THEN {<<>>}
    ELSE ListsOf(S, n - 1) \cup {Append(l, x) : l \in {m \in ListsOf(S, n - 1) : Len(m) = n - 1}, x \in S}

PostedLists == ListsOf(PostedItem, MaxItems)

\* The manually mapped items of the review form: none or one.
ManualLists == ListsOf(PostedItem, 1)

StoreTables ==
    /\ nutrients = SeededNutrients
    /\ ingredient_nutrients = StoredIngredientNutrients
    /\ recipe = None
    /\ nutrition_data = None
    /\ issues = <<>>
    /\ warnings = <<>>
    /\ info = <<>>
    /\ result = None
    /\ indicators = None

InitIngest ==
    /\ StoreTables
    /\ response = None
    /\ db = EmptyDb
    /\ pc = "idle"

\* POST api_recipe_create with a name and an ingredient list taken from lists.
ApiRecipeCreate(lists) ==
    /\ db.recipe = None
    /\ \E items \in lists :
        LET made == CreateCheckedRows(<<>>, items)
        IN  /\ db' = [db EXCEPT !.recipe = StoredRecipe, !.rows = made.rows]
            /\ response' = [status |-> IF made.error THEN 500 ELSE 201]
    /\ pc' = "api_recipe_create"
    /\ UNCHANGED <<nutrients, ingredient_nutrients, recipe, nutrition_data, issues,
                   warnings, info, result, indicators>>

\* PATCH api_recipe_update of the stored recipe, with an ingredient list
\* taken from lists or without the 'ingredients' key.
ApiRecipeUpdate(lists) ==
    /\ db.recipe # None
    /\ \/ /\ db' = db
          /\ response' = [status |-> 200]
       \/ \E items \in lists :
            LET made == CreateCheckedRows(<<>>, items)
            IN  /\ db' = [db EXCEPT !.rows = made.rows]
                /\ response' = [status |-> IF made.error THEN 500 ELSE 200]
    /\ pc' = "api_recipe_update"
    /\ UNCHANGED <<nutrients, ingredient_nutrients, recipe, nutrition_data, issues,
                   warnings, info, result, indicators>>

\* DELETE api_recipe_delete: the rows of the recipe go with it (CASCADE).
ApiRecipeDelete ==
    /\ db.recipe # None
    /\ db' = EmptyDb
    /\ response' = [status |-> 200]
    /\ pc' = "api_recipe_delete"
    /\ UNCHANGED <<nutrients, ingredient_nutrients, recipe, nutrition_data, issues,
                   warnings, info, result, indicators>>

\* POST api_batch_upload of a CSV file of one row whose ingredients column
\* holds items.
ApiBatchUpload ==
    /\ db.recipe = None
    /\ \E items \in PostedLists, detected \in BOOLEAN :
        LET made == CreateRows(<<>>, items)
        IN  /\ db' = [db EXCEPT !.recipe = IF made.error THEN StoredRecipe
                                          ELSE DetectAllergens(StoredRecipe, detected),
                                !.rows = made.rows]
            /\ response' = [status |-> IF made.error THEN 500 ELSE 200]
    /\ pc' = "api_batch_upload"
    /\ UNCHANGED <<nutrients, ingredient_nutrients, recipe, nutrition_data, issues,
                   warnings, info, result, indicators>>

\* POST recipe_parse_confirm with the parsed recipe of the session (its
\* matched items) and the manually mapped items of the form.
RecipeParseConfirm ==
    /\ db.recipe = None
    /\ \E matched \in PostedLists, manual \in ManualLists :
        LET made == CreateRows(<<>>, matched)
        IN  /\ db' = [db EXCEPT !.recipe = StoredRecipe,
                                !.rows = IF made.error THEN made.rows
                                         ELSE GetOrCreateRows(made.rows, manual)]
            /\ response' = [status |-> IF made.error THEN 500 ELSE 302]
    /\ pc' = "recipe_parse_confirm"
    /\ UNCHANGED <<nutrients, ingredient_nutrients, recipe, nutrition_data, issues,
                   warnings, info, result, indicators>>

\* The steps 3 to 9 of api_auto_analyze on the tables d: allergens, nutrition,
\* compliance, the label with its PDF, the version, the answer.
AutoAnalyzePipeline(d, detected, status) ==
    CHOOSE r \in
        {[db |-> [d EXCEPT !.recipe = DetectAllergens(d.recipe, detected),
                           !.labels = Append(@, GeneratedLabel("pdf", a.nutrition_data,
                                                               a.is_compliant,
                                                               a.compliance_notes,
                                                               a.nutrition_data)),
                           !.versions = CreateVersionSnapshot(@, a.nutrition_data,
                                                              a.is_compliant)],
          response |-> [status |-> status, nutrition |-> a.nutrition_data,
                        is_compliant |-> a.is_compliant,
                        fop_indicators |-> a.fop_indicators,
                        label_id |-> Len(d.labels) + 1,
                        version |-> NextVersionNumber(d.versions)]] :
            a \in {Analysis([d EXCEPT !.recipe = DetectAllergens(d.recipe, detected)])}} : TRUE

\* POST api_auto_analyze with a name and an ingredient list taken from lists:
\* a new recipe, analysed.
ApiAutoAnalyzeCreate(lists) ==
    /\ db.recipe = None
    /\ \E items \in lists, detected \in BOOLEAN :
        LET d == [db EXCEPT !.recipe = StoredRecipe,
                            !.rows = GetOrCreateCheckedRows(<<>>, items)]
            r == AutoAnalyzePipeline(d, detected, 201)
        IN  /\ db' = r.db
            /\ response' = r.response
    /\ pc' = "api_auto_analyze"
    /\ UNCHANGED <<nutrients, ingredient_nutrients, recipe, nutrition_data, issues,
                   warnings, info, result, indicators>>

NextIngest ==
    \/ ApiRecipeCreate(PostedLists)
    \/ ApiRecipeUpdate(PostedLists)
    \/ ApiRecipeDelete
    \/ ApiBatchUpload
    \/ RecipeParseConfirm
    \/ ApiAutoAnalyzeCreate(PostedLists)

SpecIngest == InitIngest /\ [][NextIngest]_vars

-----------------------------------------------------------------------------
(* Repeated analyses of a recipe: SpecVersions                             *)

\* A recipe is analysed at most this many times.
MaxVersions == 3

\* The ingredient lists of the edits: none, Rice, Rice and Salt.
EditLists ==
    {<<>>, <<Row("Rice", R(1))>>, <<Row("Rice", R(1)), Row("Salt", R(1))>>}

\* POST api_auto_analyze with the recipe_id of the stored recipe and no name:
\* the recipe is analysed again.
ApiAutoAnalyzeAgain ==
    /\ db.recipe # None
    /\ Len(db.versions) < MaxVersions
    /\ \E detected \in BOOLEAN :
        LET r == AutoAnalyzePipeline(db, detected, 200)
        IN  /\ db' = r.db
            /\ response' = r.response
    /\ pc' = "api_auto_analyze"
    /\ UNCHANGED <<nutrients, ingredient_nutrients, recipe, nutrition_data, issues,
                   warnings, info, result, indicators>>

\* GET api_recipe_versions: the versions of the recipe, newest first.
ApiRecipeVersions ==
    /\ db.recipe # None
    /\ response' = [status |-> 200,
                    versions |-> [k \in DOMAIN db.versions |->
                                    db.versions[Len(db.versions) + 1 - k]]]
    /\ pc' = "api_recipe_versions"
    /\ UNCHANGED <<nutrients, ingredient_nutrients, recipe, nutrition_data, issues,
                   warnings, info, result, indicators, db>>

NextVersions ==
    \/ ApiRecipeCreate(EditLists)
    \/ ApiAutoAnalyzeCreate(EditLists)
    \/ ApiRecipeUpdate(EditLists)
    \/ ApiAutoAnalyzeAgain
    \/ ApiRecipeVersions

SpecVersions == InitIngest /\ [][NextVersions]_vars

-----------------------------------------------------------------------------
(* Consumers and exports of a stored recipe: SpecExport                    *)

\* A recipe is exported at most this many times.
MaxLabels == 2

\* The ingredient lists of the edits: none (not compliant), Rice (compliant).
ExportEditLists == {<<>>, <<Row("Rice", R(1))>>}

\* The formats a client asks for; "xml" stands for any unsupported one.  A
\* csv or html label differs from a json one in its format field only, so the
\* exports ask for pdf and json; the downloads ask for every format.
SupportedFormats == {"pdf", "json", "csv", "html"}
ExportFormats == {"pdf", "json", "xml"}
DownloadFormats == SupportedFormats \cup {"xml"}

\* A plausible slip: the label row made with the default of the
\* is_fssai_compliant field instead of the verdict.
ExportLabelDefaultFlag(fmt, a) ==
    GeneratedLabel(fmt, a.nutrition_data, FALSE, a.compliance_notes,
                   IF fmt = "pdf" THEN a.nutrition_data ELSE None)

\* The label row of api_recipe_export: created with a blank file_path, which
\* is set to the rendered PDF when the format is pdf.
ExportLabel(fmt, a) ==
    GeneratedLabel(fmt, a.nutrition_data, a.is_compliant, a.compliance_notes,
                   IF fmt = "pdf" THEN a.nutrition_data ELSE None)

\* GET api_recipe_detail: _recipe_to_dict(recipe, include_nutrition=True).
ApiRecipeDetail ==
    /\ db.recipe # None
    /\ response' = [status |-> 200,
                    nutrition |-> CalculateNutrition(RecipeObject(db),
                                                     ingredient_nutrients, nutrients)]
    /\ pc' = "api_recipe_detail"
    /\ UNCHANGED <<nutrients, ingredient_nutrients, recipe, nutrition_data, issues,
                   warnings, info, result, indicators, db>>

\* GET api_recipe_analyze: nutrition and FOP indicators, no check_all.
ApiRecipeAnalyze ==
    /\ db.recipe # None
    /\ \E nd \in {CalculateNutrition(RecipeObject(db), ingredient_nutrients, nutrients)} :
            response' = [status |-> 200, nutrition |-> nd,
                         fop_indicators |-> GetFopIndicators(nd)]
    /\ pc' = "api_recipe_analyze"
    /\ UNCHANGED <<nutrients, ingredient_nutrients, recipe, nutrition_data, issues,
                   warnings, info, result, indicators, db>>

\* GET api_recipe_compliance.
ApiRecipeCompliance ==
    /\ db.recipe # None
    /\ \E a \in {Analysis(db)} :
            response' = [status |-> 200, is_compliant |-> a.is_compliant,
                         compliance_notes |-> a.compliance_notes,
                         fop_indicators |-> a.fop_indicators]
    /\ pc' = "api_recipe_compliance"
    /\ UNCHANGED <<nutrients, ingredient_nutrients, recipe, nutrition_data, issues,
                   warnings, info, result, indicators, db>>

\* GET api_recipe_label.
ApiRecipeLabel ==
    /\ db.recipe # None
    /\ \E a \in {Analysis(db)} :
            response' = [status |-> 200, nutrition |-> a.nutrition_data,
                         is_compliant |-> a.is_compliant,
                         compliance_notes |-> a.compliance_notes,
                         fop_indicators |-> a.fop_indicators]
    /\ pc' = "api_recipe_label"
    /\ UNCHANGED <<nutrients, ingredient_nutrients, recipe, nutrition_data, issues,
                   warnings, info, result, indicators, db>>

\* POST api_recipe_export with format fmt.
ApiRecipeExport ==
    /\ db.recipe # None
    /\ Len(db.labels) < MaxLabels
    /\ \E a \in {Analysis(db)} : \E fmt \in ExportFormats :
        IF fmt \notin SupportedFormats
        THEN /\ response' = [status |-> 400]
             /\ db' = db
        ELSE /\ db' = [db EXCEPT !.labels = Append(@, ExportLabel(fmt, a))]
             /\ response' = [status |-> 200, label_id |-> Len(db.labels) + 1,
                             format |-> fmt, is_compliant |-> a.is_compliant]
    /\ pc' = "api_recipe_export"
    /\ UNCHANGED <<nutrients, ingredient_nutrients, recipe, nutrition_data, issues,
                   warnings, info, result, indicators>>

\* GET api_recipe_export_download with format fmt and label_id (0: none
\* given, the latest label).  A pdf whose label has a file_path is served from
\* that file; any other answer is rendered from the analysis of this call.
ApiRecipeExportDownload ==
    /\ db.recipe # None
    /\ \E a \in {Analysis(db)} : \E fmt \in DownloadFormats, label_id \in 0..MaxLabels :
        LET id == IF label_id = 0 THEN Len(db.labels) ELSE label_id
        IN  IF id \notin DOMAIN db.labels
            THEN /\ response' = [status |-> 404]
                 /\ db' = db
            ELSE CASE fmt = "pdf" /\ db.labels[id].file_path # "" ->
                        /\ response' = [status |-> 200, format |-> fmt,
                                        nutrition |-> db.labels[id].file]
                        /\ db' = db
                   [] fmt = "pdf" /\ db.labels[id].file_path = "" ->
                        /\ response' = [status |-> 200, format |-> fmt,
                                        nutrition |-> a.nutrition_data]
                        /\ db' = [db EXCEPT !.labels[id] =
                                    GeneratedLabel(@.format, @.nutrition_data,
                                                   @.is_fssai_compliant,
                                                   @.compliance_notes,
                                                   a.nutrition_data)]
                   [] fmt \in {"json", "csv"} ->
                        /\ response' = [status |-> 200, format |-> fmt,
                                        nutrition |-> a.nutrition_data,
                                        is_compliant |-> a.is_compliant]
                        /\ db' = db
                   [] fmt = "html" ->
                        /\ response' = [status |-> 200, format |-> fmt,
                                        nutrition |-> a.nutrition_data]
                        /\ db' = db
                   [] OTHER ->
                        /\ response' = [status |-> 400]
                        /\ db' = db
    /\ pc' = "api_recipe_export_download"
    /\ UNCHANGED <<nutrients, ingredient_nutrients, recipe, nutrition_data, issues,
                   warnings, info, result, indicators>>

NextExport ==
    \/ ApiRecipeCreate(ExportEditLists)
    \/ ApiRecipeUpdate(ExportEditLists)
    \/ ApiRecipeDetail
    \/ ApiRecipeAnalyze
    \/ ApiRecipeCompliance
    \/ ApiRecipeLabel
    \/ ApiRecipeExport
    \/ ApiRecipeExportDownload

SpecExport == InitIngest /\ [][NextExport]_vars

-----------------------------------------------------------------------------
(* The ingredient declaration of a stored recipe: SpecIngredientList       *)

\* The ingredients and the weights of the declared recipes.
ListedIngredients == {"Rice", "Salt", "Oats"}
ListedWeights == {R(1), R(2)}

\* The ingredient lists of the requests: up to three items.
ListedLists ==
    ListsOf({Row(i, w) : i \in ListedIngredients, w \in ListedWeights},
            Cardinality(ListedIngredients))

\* The orders of the positions of rows.
Orders(rows) ==
    {p \in [DOMAIN rows -> DOMAIN rows] :
        \A j, k \in DOMAIN rows : j # k => p[j] # p[k]}

\* A plausible slip: order_by('weight_grams'), lightest first.
OrderByWeightAscending(rows) ==
    {[k \in DOMAIN rows |-> rows[p[k]]] : p \in
        {q \in Orders(rows) :
            \A k \in 1..(Len(rows) - 1) :
                RLe(rows[q[k]].weight_grams, rows[q[k + 1]].weight_grams)}}

\* self.ingredients.order_by('-weight_grams'): the rows heaviest first; the
\* database orders rows of equal weight as it likes.
OrderByWeightDescending(rows) ==
    {[k \in DOMAIN rows |-> rows[p[k]]] : p \in
        {q \in Orders(rows) :
            \A k \in 1..(Len(rows) - 1) :
                RLe(rows[q[k + 1]].weight_grams, rows[q[k]].weight_grams)}}

\* Recipe.get_ingredient_list_string: "name (weight g)" of each ordered row,
\* joined by commas; here the sequence of <<name, weight>>.
GetIngredientListString(rows) ==
    {[k \in DOMAIN items |-> <<items[k].ingredient, items[k].weight_grams>>] :
        items \in OrderByWeightDescending(rows)}

\* A call of get_ingredient_list_string on the stored recipe.
CallGetIngredientListString ==
    /\ db.recipe # None
    /\ \E str \in GetIngredientListString(db.rows) :
            response' = [ingredient_list |-> str]
    /\ pc' = "get_ingredient_list_string"
    /\ UNCHANGED <<nutrients, ingredient_nutrients, recipe, nutrition_data, issues,
                   warnings, info, result, indicators, db>>

NextIngredientList ==
    \/ ApiRecipeCreate(ListedLists)
    \/ ApiRecipeUpdate(ListedLists)
    \/ ApiRecipeDelete
    \/ CallGetIngredientListString

SpecIngredientList == InitIngest /\ [][NextIngredientList]_vars

-----------------------------------------------------------------------------
(* Attribution of the HIGH nutrients of a stored recipe: SpecReformulate   *)

\* contribs[:5]
TopContributors == 5

\* A recipe of six ingredients that all carry fat: Wheat and Maida in
\* amounts whose fat differs below the third decimal, Rice in an amount
\* whose saturated fat is below the fourth.
AttributionBase ==
    <<Row("Butter", R(1)), Row("Rice", Rat(2, 100)), Row("Oats", Rat(7, 100)),
      Row("Wheat", Rat(8, 100)), Row("Maida", Rat(16, 100)), Row("Chickpea", R(1))>>

\* The items at the positions pos of list, in the order of list.
RECURSIVE Pick(_, _)
Pick(list, pos) ==
    IF list = <<>> THEN <<>>
    ELSE (IF Len(list) \in pos THEN Pick(SubSeq(list, 1, Len(list) - 1), pos)
                                     \o <<list[Len(list)]>>
          ELSE Pick(SubSeq(list, 1, Len(list) - 1), pos))

Reversed(list) == [k \in DOMAIN list |-> list[Len(list) + 1 - k]]

\* The ingredient lists of the requests: any of the six items, in the order
\* of the base recipe or in the opposite order.
AttributionLists ==
    {Pick(AttributionBase, pos) : pos \in SUBSET DOMAIN AttributionBase}
    \cup {Pick(Reversed(AttributionBase), pos) : pos \in SUBSET DOMAIN AttributionBase}

\* The IngredientNutrient table as seeded, and with the Total Fat row of
\* Oats deleted.
AttributionTables ==
    {StoredIngredientNutrients,
     [key \in DOMAIN StoredIngredientNutrients \ {<<"Oats", NutrientId("Total Fat")>>} |->
        StoredIngredientNutrients[key]]}

\* ingredient_data: for each row of the recipe, in the rows' order, the
\* ingredient, its weight and, by nutrient name, round(abs_val, 4).
IngredientData(rows, inv, nuts) ==
    [k \in DOMAIN rows |->
        [name |-> rows[k].ingredient,
         weight_grams |-> rows[k].weight_grams,
         nutrients |->
            [n \in {nuts[nid].name : nid \in
                        {i \in DOMAIN nuts : <<rows[k].ingredient, i>> \in DOMAIN inv}} |->
                [abs |-> Round(Contribution(rows[k].weight_grams,
                                            inv[<<rows[k].ingredient, NutrientId(n)>>]), 4)]]]]

\* max(a, b)
RMax(a, b) == IF RLt(a, b) THEN b ELSE a

\* The entries of contribs for the HIGH indicator high: the ingredients that
\* have the nutrient with abs > 0, in the rows' order.
Contribs(ingredient_data, high, total_weight) ==
    LET with == SelectSeq(ingredient_data,
                    LAMBDA ing : /\ high.nutrient \in DOMAIN ing.nutrients
                                 /\ RGt(ing.nutrients[high.nutrient].abs, Zero))
    IN  [k \in DOMAIN with |->
            LET abs == with[k].nutrients[high.nutrient].abs
            IN  [ingredient |-> with[k].name,
                 weight_grams |-> with[k].weight_grams,
                 contribution_abs |-> Round(abs, 3),
                 contribution_per_100g |->
                    Round(RMul(RDiv(abs, total_weight), R(100)), 3),
                 pct_of_total |->
                    Round(RMul(RDiv(abs, RMax(RDiv(RMul(high.value, total_weight), R(100)),
                                              Rat(1, 1000))),
                               R(100)), 1)]]

\* list.sort(key=lambda x: x['contribution_abs'], reverse=True): a stable
\* sort, entries of one key stay in the order they had.
RECURSIVE InsertByContribution(_, _)
InsertByContribution(sorted, x) ==
    IF sorted = <<>> THEN <<x>>
    ELSE IF RLt(Head(sorted).contribution_abs, x.contribution_abs)
    THEN <<x>> \o sorted
    ELSE <<Head(sorted)>> \o InsertByContribution(Tail(sorted), x)

RECURSIVE SortByContribution(_)
SortByContribution(contribs) ==
    IF contribs = <<>> THEN <<>>
    ELSE InsertByContribution(SortByContribution(SubSeq(contribs, 1, Len(contribs) - 1)),
                              contribs[Len(contribs)])

\* THRESHOLDS of api_reformulate
ReformulateThresholds ==
    [n \in {"Total Fat", "Saturated Fat", "Total Sugars", "Sodium"} |->
        CASE n = "Total Fat" -> Rat(175, 10)
          [] n = "Saturated Fat" -> R(5)
          [] n = "Total Sugars" -> Rat(225, 10)
          [] OTHER -> R(600)]

\* attribution: for each HIGH indicator, the sorted contribs cut to five.
Attribution(d, inv, nuts, fop) ==
    LET high_nutrients == SelectSeq(fop, LAMBDA ind : ind.level = "HIGH")
        total_weight == OrOne(TotalWeight(RecipeObject(d).ingredients))
        ingredient_data == IngredientData(d.rows, inv, nuts)
        Of(name) == high_nutrients[CHOOSE k \in DOMAIN high_nutrients :
                                        high_nutrients[k].nutrient = name]
    IN  [name \in {high_nutrients[k].nutrient : k \in DOMAIN high_nutrients} |->
            LET sorted == SortByContribution(Contribs(ingredient_data, Of(name),
                                                      total_weight))
            IN  [current_per_100g |-> Round(Of(name).value, 3),
                 threshold |-> DictGet(ReformulateThresholds, name, Zero),
                 unit |-> Of(name).unit,
                 top_contributors |->
                    SubSeq(sorted, 1, IF Len(sorted) < TopContributors
                                      THEN Len(sorted) ELSE TopContributors)]]

\* POST api_reformulate for the stored recipe.  ai_ok: the call of the AI
\* service returns (an empty list of suggestions); otherwise it raises and
\* the view answers 500.
ApiReformulate ==
    /\ db.recipe # None
    /\ \E fop \in {Analysis(db).fop_indicators} : \E ai_ok \in BOOLEAN :
        response' =
            IF \A k \in DOMAIN fop : fop[k].level # "HIGH"
            THEN [status |-> 200, needs_reformulation |-> FALSE, attribution |-> <<>>,
                  suggestions |-> <<>>]
            ELSE IF ai_ok
            THEN [status |-> 200, needs_reformulation |-> TRUE,
                  attribution |-> Attribution(db, ingredient_nutrients, nutrients, fop),
                  suggestions |-> <<>>]
            ELSE [status |-> 500]
    /\ pc' = "api_reformulate"
    /\ UNCHANGED <<nutrients, ingredient_nutrients, recipe, nutrition_data, issues,
                   warnings, info, result, indicators, db>>

InitReformulate ==
    /\ nutrients = SeededNutrients
    /\ ingredient_nutrients \in AttributionTables
    /\ recipe = None
    /\ nutrition_data = None
    /\ issues = <<>>
    /\ warnings = <<>>
    /\ info = <<>>
    /\ result = None
    /\ indicators = None
    /\ response = None
    /\ db = EmptyDb
    /\ pc = "idle"

NextReformulate ==
    \/ ApiRecipeCreate(AttributionLists)
    \/ ApiRecipeUpdate(AttributionLists)
    \/ ApiReformulate

SpecReformulate == InitReformulate /\ [][NextReformulate]_vars

-----------------------------------------------------------------------------
(* An edit and an analysis of one recipe in flight together:               *)
(* SpecEditAnalyze.  No view opens a transaction, every query commits on   *)
(* its own, so the two requests interleave query by query.  pc holds the   *)
(* position and the local variables of each request (body: the posted      *)
(* list, items: what the loop has still to visit), response the answer of  *)
(* each.                                                                   *)

\* The rows of the recipe before the edit.
RowsBeforeEdit == <<Row("Rice", R(1)), Row("Oats", R(1))>>

\* The ingredient lists a PATCH carries: positive weights, distinct
\* ingredients.
EditedLists ==
    {<<Row("Butter", R(1))>>,
     <<Row("Butter", R(1)), Row("Rice", R(2))>>,
     <<Row("Oats", R(2)), Row("Butter", R(2))>>,
     <<Row("Rice", R(2)), Row("Oats", R(1))>>}

\* Recipe.calculate_nutrition when the rows change between its two queries:
\* the loop runs over the rows of rec, self.total_weight finds total_weight.
CalculateNutritionBetween(rec, total_weight, inv, nuts) ==
    LET rows     == rec.ingredients
        total_wt == OrOne(total_weight)
    IN  [nid \in NutritionKeys(rows, inv, nuts) |->
            LET total       == RawTotal(rows, inv, nid)
                per_serving == RMul(RDiv(total, total_wt), rec.serving_size)
            IN  [nutrient    |-> nuts[nid],
                 total_value |-> Round(total, 2),
                 per_serving |-> Round(per_serving, 2),
                 per_100g    |-> Round(RMul(RDiv(total, total_wt), R(100)), 2),
                 percent_dv  |-> PercentDv(per_serving, nuts[nid].daily_value)]]

InitEditAnalyze ==
    /\ StoreTables
    /\ db = [EmptyDb EXCEPT !.recipe = StoredRecipe, !.rows = RowsBeforeEdit]
    /\ \E items \in EditedLists :
        pc = [update |-> [at |-> "save", body |-> items, items |-> items],
              analyze |-> [at |-> "get", rows |-> <<>>]]
    /\ response = [update |-> None, analyze |-> None]

\* api_recipe_update: recipe.save()
UpdateSave ==
    /\ pc.update.at = "save"
    /\ pc' = [pc EXCEPT !.update.at = "delete"]
    /\ UNCHANGED <<nutrients, ingredient_nutrients, recipe, nutrition_data, issues,
                   warnings, info, result, indicators, response, db>>

\* api_recipe_update: recipe.ingredients.all().delete()
UpdateDelete ==
    /\ pc.update.at = "delete"
    /\ db' = [db EXCEPT !.rows = <<>>]
    /\ pc' = [pc EXCEPT !.update.at = "create"]
    /\ UNCHANGED <<nutrients, ingredient_nutrients, recipe, nutrition_data, issues,
                   warnings, info, result, indicators, response>>

\* api_recipe_update: one turn of the loop over body['ingredients'].
UpdateCreate ==
    /\ pc.update.at = "create"
    /\ pc.update.items # <<>>
    /\ \E made \in {CreateCheckedRows(db.rows, <<Head(pc.update.items)>>)} :
        IF made.error
        THEN /\ response' = [response EXCEPT !.update = [status |-> 500]]
             /\ pc' = [pc EXCEPT !.update.at = "done"]
             /\ db' = db
        ELSE /\ db' = [db EXCEPT !.rows = made.rows]
             /\ pc' = [pc EXCEPT !.update.items = Tail(pc.update.items)]
             /\ response' = response
    /\ UNCHANGED <<nutrients, ingredient_nutrients, recipe, nutrition_data, issues,
                   warnings, info, result, indicators>>

\* api_recipe_update: the answer after the loop.
UpdateRespond ==
    /\ pc.update.at = "create"
    /\ pc.update.items = <<>>
    /\ response' = [response EXCEPT !.update = [status |-> 200]]
    /\ pc' = [pc EXCEPT !.update.at = "done"]
    /\ UNCHANGED <<nutrients, ingredient_nutrients, recipe, nutrition_data, issues,
                   warnings, info, result, indicators, db>>

\* api_recipe_analyze: get_object_or_404
AnalyzeGet ==
    /\ pc.analyze.at = "get"
    /\ pc' = [pc EXCEPT !.analyze.at = "rows"]
    /\ UNCHANGED <<nutrients, ingredient_nutrients, recipe, nutrition_data, issues,
                   warnings, info, result, indicators, response, db>>

\* calculate_nutrition: the query of the first loop, self.ingredients.
AnalyzeRows ==
    /\ pc.analyze.at = "rows"
    /\ pc' = [pc EXCEPT !.analyze.at = "total_weight", !.analyze.rows = db.rows]
    /\ UNCHANGED <<nutrients, ingredient_nutrients, recipe, nutrition_data, issues,
                   warnings, info, result, indicators, response, db>>

\* calculate_nutrition: the query of self.total_weight and the second loop;
\* the answer of the view.
AnalyzeTotalWeight ==
    /\ pc.analyze.at = "total_weight"
    /\ \E nd \in {CalculateNutritionBetween(
                        RecipeObject([db EXCEPT !.rows = pc.analyze.rows]),
                        TotalWeight(RecipeObject(db).ingredients),
                        ingredient_nutrients, nutrients)} :
        /\ nutrition_data' = nd
        /\ response' = [response EXCEPT !.analyze =
                            [status |-> 200, nutrition |-> nd,
                             fop_indicators |-> GetFopIndicators(nd)]]
    /\ pc' = [pc EXCEPT !.analyze.at = "done"]
    /\ UNCHANGED <<nutrients, ingredient_nutrients, recipe, issues,
                   warnings, info, result, indicators, db>>

NextEditAnalyze ==
    \/ UpdateSave
    \/ UpdateDelete
    \/ UpdateCreate
    \/ UpdateRespond
    \/ AnalyzeGet
    \/ AnalyzeRows
    \/ AnalyzeTotalWeight

SpecEditAnalyze == InitEditAnalyze /\ [][NextEditAnalyze]_vars

-----------------------------------------------------------------------------
(* Two auto-analyze requests for one stored recipe in flight together:     *)
(* SpecTwoAnalyses.  pc[p] holds the position of request p and its local   *)
(* variables (a: the analysis, next_ver), response[p] its answer.          *)

Requests == {1, 2}

\* The recipe has at most this many versions before the two requests.
MaxPriorVersions == 2

\* The versions 1..n that earlier analyses of the rows made, one by one.
RECURSIVE PriorVersions(_, _)
PriorVersions(a, n) ==
    IF n = 0 THEN <<>>
    ELSE CreateVersionSnapshot(PriorVersions(a, n - 1), a.nutrition_data, a.is_compliant)

InitTwoAnalyses ==
    /\ StoreTables
    /\ \E rows \in EditLists, n \in 0..MaxPriorVersions :
        \E d \in {[EmptyDb EXCEPT !.recipe = StoredRecipe, !.rows = rows]} :
            db = [d EXCEPT !.versions = PriorVersions(Analysis(d), n)]
    /\ pc = [p \in Requests |-> [at |-> "load", a |-> None, next_ver |-> 0]]
    /\ response = [p \in Requests |-> None]

\* Step 1 of api_auto_analyze with a recipe_id: get_object_or_404.
LoadRecipe(p) ==
    /\ pc[p].at = "load"
    /\ pc' = [pc EXCEPT ![p].at = "analyze"]
    /\ UNCHANGED <<nutrients, ingredient_nutrients, recipe, nutrition_data, issues,
                   warnings, info, result, indicators, response, db>>

\* Steps 3 to 7: allergens, nutrition, compliance, the label with its PDF.
AnalyzeAndLabel(p) ==
    /\ pc[p].at = "analyze"
    /\ \E detected \in BOOLEAN :
        \E rec \in {DetectAllergens(db.recipe, detected)} :
        \E a \in {Analysis([db EXCEPT !.recipe = rec])} :
            /\ db' = [db EXCEPT !.recipe = rec,
                                !.labels = Append(@, GeneratedLabel("pdf", a.nutrition_data,
                                                                    a.is_compliant,
                                                                    a.compliance_notes,
                                                                    a.nutrition_data))]
            /\ pc' = [pc EXCEPT ![p].at = "last_ver", ![p].a = a]
    /\ UNCHANGED <<nutrients, ingredient_nutrients, recipe, nutrition_data, issues,
                   warnings, info, result, indicators, response>>

\* _create_version_snapshot: last_ver and next_ver.
ReadLastVersion(p) ==
    /\ pc[p].at = "last_ver"
    /\ pc' = [pc EXCEPT ![p].at = "create", ![p].next_ver = NextVersionNumber(db.versions)]
    /\ UNCHANGED <<nutrients, ingredient_nutrients, recipe, nutrition_data, issues,
                   warnings, info, result, indicators, response, db>>

\* _create_version_snapshot: RecipeVersion.objects.create.  unique_together
\* = ('recipe', 'version_number') refuses a number the recipe has already;
\* nothing catches the IntegrityError and the request ends with a 500.
CreateVersion(p) ==
    /\ pc[p].at = "create"
    /\ IF \E k \in DOMAIN db.versions : db.versions[k].version_number = pc[p].next_ver
       THEN /\ response' = [response EXCEPT ![p] = [status |-> 500]]
            /\ pc' = [pc EXCEPT ![p].at = "failed"]
            /\ db' = db
       ELSE /\ db' = [db EXCEPT !.versions =
                        Append(@, [version_number |-> pc[p].next_ver,
                                   snapshot |-> pc[p].a.nutrition_data,
                                   is_compliant |-> pc[p].a.is_compliant])]
            /\ pc' = [pc EXCEPT ![p].at = "respond"]
            /\ response' = response
    /\ UNCHANGED <<nutrients, ingredient_nutrients, recipe, nutrition_data, issues,
                   warnings, info, result, indicators>>

\* Step 9: the answer.
RespondAnalysis(p) ==
    /\ pc[p].at = "respond"
    /\ response' = [response EXCEPT ![p] =
                        [status |-> 200, nutrition |-> pc[p].a.nutrition_data,
                         is_compliant |-> pc[p].a.is_compliant,
                         version |-> pc[p].next_ver]]
    /\ pc' = [pc EXCEPT ![p].at = "done"]
    /\ UNCHANGED <<nutrients, ingredient_nutrients, recipe, nutrition_data, issues,
                   warnings, info, result, indicators, db>>

NextTwoAnalyses ==
    \E p \in Requests :
        \/ LoadRecipe(p)
        \/ AnalyzeAndLabel(p)
        \/ ReadLastVersion(p)
        \/ CreateVersion(p)
        \/ RespondAnalysis(p)

SpecTwoAnalyses == InitTwoAnalyses /\ [][NextTwoAnalyses]_vars

-----------------------------------------------------------------------------
(* The rate limiter of the auth endpoints: SpecRateLimit.  db holds the    *)
(* module's _rate_limit_store (store), the clock in seconds (now) and, for *)
(* each address, the attempts made so far with their answers (attempts).   *)

RATE_LIMIT_WINDOW == 60
RATE_LIMIT_MAX == 10

\* The addresses the attempts come from.
Addresses == {"10.0.0.1", "10.0.0.2"}

\* All the addresses together make at most this many attempts.
MaxAttempts == 11

\* The clock advances by this many seconds at a time, up to MaxClock.
ClockStep == 30
MaxClock == 60

\* _check_rate_limit for the address ip at the time now: the store after
\* the call and the value returned (True: rate-limited).
CheckRateLimit(store, ip, now) ==
    LET attempts == SelectSeq(DictGet(store, ip, <<>>),
                              LAMBDA t : now - t < RATE_LIMIT_WINDOW)
        Without   == [a \in DOMAIN store \ {ip} |-> store[a]]
        With(l)   == [a \in DOMAIN store \cup {ip} |-> IF a = ip THEN l ELSE store[a]]
    IN  IF attempts = <<>>
        THEN [store |-> Without, limited |-> FALSE]
        ELSE IF Len(attempts) >= RATE_LIMIT_MAX
        THEN [store |-> With(attempts), limited |-> TRUE]
        ELSE [store |-> With(Append(attempts, now)), limited |-> FALSE]

InitRateLimit ==
    /\ StoreTables
    /\ db = [store |-> <<>>, now |-> 0, attempts |-> [a \in Addresses |-> <<>>]]
    /\ response = None
    /\ pc = "idle"

\* POST api_login from ip: 429 when rate-limited, else 200 with a token or
\* 401 for wrong credentials.
ApiLoginAttempt ==
    /\ Len(db.attempts["10.0.0.1"]) + Len(db.attempts["10.0.0.2"]) < MaxAttempts
    /\ \E ip \in Addresses, status \in {200, 401} :
        \E r \in {CheckRateLimit(db.store, ip, db.now)} :
            /\ db' = [db EXCEPT !.store = r.store,
                                !.attempts[ip] = Append(@, [at |-> db.now,
                                                             limited |-> r.limited])]
            /\ response' = [status |-> IF r.limited THEN 429 ELSE status]
    /\ pc' = "api_login"
    /\ UNCHANGED <<nutrients, ingredient_nutrients, recipe, nutrition_data, issues,
                   warnings, info, result, indicators>>

\* POST api_register from ip: 429 when rate-limited, else 201 with a token
\* or 400 for a refused registration.
ApiRegisterAttempt ==
    /\ Len(db.attempts["10.0.0.1"]) + Len(db.attempts["10.0.0.2"]) < MaxAttempts
    /\ \E ip \in Addresses, status \in {201, 400} :
        \E r \in {CheckRateLimit(db.store, ip, db.now)} :
            /\ db' = [db EXCEPT !.store = r.store,
                                !.attempts[ip] = Append(@, [at |-> db.now,
                                                             limited |-> r.limited])]
            /\ response' = [status |-> IF r.limited THEN 429 ELSE status]
    /\ pc' = "api_register"
    /\ UNCHANGED <<nutrients, ingredient_nutrients, recipe, nutrition_data, issues,
                   warnings, info, result, indicators>>

\* Time passes.
Tick ==
    /\ db.now < MaxClock
    /\ db' = [db EXCEPT !.now = @ + ClockStep]
    /\ UNCHANGED <<nutrients, ingredient_nutrients, recipe, nutrition_data, issues,
                   warnings, info, result, indicators, response, pc>>

NextRateLimit ==
    \/ ApiLoginAttempt
    \/ ApiRegisterAttempt
    \/ Tick

SpecRateLimit == InitRateLimit /\ [][NextRateLimit]_vars

-----------------------------------------------------------------------------
(* The JWT tokens and the blacklist: SpecTokens.  db holds the module's    *)
(* _revoked_tokens (revoked), the clock (now, in ticks of a fraction of a  *)
(* second), the tokens the clients have been given (issued) and the tokens *)
(* a logout or a refresh has revoked so far (ever_revoked).                *)

\* The clock ticks this many times in a second.
TicksPerSecond == 2

\* JWT_EXPIRATION_HOURS, 24 unless the settings say otherwise, in seconds.
JWT_EXPIRATION == 86400

\* The clock makes at most this many ticks after midnight.
MaxTicks == 3

\* The clients are given at most this many tokens.
MaxTokens == 3

\* The users of the site.
Users == {1, 2}

\* int(now.timestamp()): the second the tick now lies in.
Second(now) == now \div TicksPerSecond

\* A plausible slip: the tick itself in the payload, no two tokens of a user
\* alike.
GenerateJwtPerTick(user, now) ==
    [user_id |-> user, iat |-> now, exp |-> Second(now) + JWT_EXPIRATION]

\* _generate_jwt: jwt.encode writes exp and iat as whole seconds, and the
\* HS256 token is a function of the payload and the secret: the token is
\* modelled by its payload.
GenerateJwt(user, now) ==
    [user_id |-> user, iat |-> Second(now), exp |-> Second(now) + JWT_EXPIRATION]

\* A plausible slip: the blacklist not consulted.
DecodeJwtSignatureOnly(token, revoked, now) ==
    IF token.exp <= Second(now) THEN None ELSE token

\* _decode_jwt: None for a revoked token and for an expired one, else the
\* payload.
DecodeJwt(token, revoked, now) ==
    IF token \in revoked THEN None
    ELSE IF token.exp <= Second(now) THEN None
    ELSE token

InitTokens ==
    /\ StoreTables
    /\ db = [revoked |-> {}, now |-> 0, issued |-> {}, ever_revoked |-> {}]
    /\ response = None
    /\ pc = "idle"

\* POST api_login of user with the right password.
ApiLogin ==
    /\ Cardinality(db.issued) < MaxTokens
    /\ \E user \in Users :
        \E token \in {GenerateJwt(user, db.now)} :
            /\ db' = [db EXCEPT !.issued = @ \cup {token}]
            /\ response' = [status |-> 200, token |-> token]
    /\ pc' = "api_login"
    /\ UNCHANGED <<nutrients, ingredient_nutrients, recipe, nutrition_data, issues,
                   warnings, info, result, indicators>>

\* POST api_logout with a token the client holds.
ApiLogout ==
    /\ \E token \in db.issued :
        /\ db' = [db EXCEPT !.revoked = @ \cup {token}, !.ever_revoked = @ \cup {token}]
        /\ response' = [status |-> 200, presented |-> token]
    /\ pc' = "api_logout"
    /\ UNCHANGED <<nutrients, ingredient_nutrients, recipe, nutrition_data, issues,
                   warnings, info, result, indicators>>

\* POST api_token_refresh with a token the client holds.
ApiTokenRefresh ==
    /\ Cardinality(db.issued) < MaxTokens
    /\ \E old_token \in db.issued :
        IF DecodeJwt(old_token, db.revoked, db.now) = None
        THEN /\ response' = [status |-> 401, presented |-> old_token]
             /\ db' = db
        ELSE \E new_token \in {GenerateJwt(old_token.user_id, db.now)} :
             /\ db' = [db EXCEPT !.revoked = @ \cup {old_token},
                                 !.ever_revoked = @ \cup {old_token},
                                 !.issued = @ \cup {new_token}]
             /\ response' = [status |-> 200, presented |-> old_token, token |-> new_token]
    /\ pc' = "api_token_refresh"
    /\ UNCHANGED <<nutrients, ingredient_nutrients, recipe, nutrition_data, issues,
                   warnings, info, result, indicators>>

\* GET api_profile, a jwt_required view, with a token the client holds.
ApiProfile ==
    /\ \E token \in db.issued :
        response' = [status |-> IF DecodeJwt(token, db.revoked, db.now) = None
                                THEN 401 ELSE 200,
                     presented |-> token]
    /\ pc' = "api_profile"
    /\ UNCHANGED <<nutrients, ingredient_nutrients, recipe, nutrition_data, issues,
                   warnings, info, result, indicators, db>>

\* A tick of the clock.
TokenTick ==
    /\ db.now % (JWT_EXPIRATION * TicksPerSecond) < MaxTicks
    /\ db' = [db EXCEPT !.now = @ + 1]
    /\ UNCHANGED <<nutrients, ingredient_nutrients, recipe, nutrition_data, issues,
                   warnings, info, result, indicators, response, pc>>

\* The first day ends: the clock is at the next midnight.
TokenDay ==
    /\ db.now < JWT_EXPIRATION * TicksPerSecond
    /\ db' = [db EXCEPT !.now = JWT_EXPIRATION * TicksPerSecond]
    /\ UNCHANGED <<nutrients, ingredient_nutrients, recipe, nutrition_data, issues,
                   warnings, info, result, indicators, response, pc>>

NextTokens ==
    \/ ApiLogin
    \/ ApiLogout
    \/ ApiTokenRefresh
    \/ ApiProfile
    \/ TokenTick
    \/ TokenDay

SpecTokens == InitTokens /\ [][NextTokens]_vars

-----------------------------------------------------------------------------
(* The stored path and the live path on one recipe: SpecAgreement.  pc is  *)
(* the set of the calls made so far.                                       *)

\* The ingredients of the recipes, in the order the front end posts them.
AgreementIngredients == <<"Rice", "Salt", "Butter">>

\* weight_grams of a row: zero (api_batch_upload stores it) or positive.
AgreementWeights == {Zero, R(1), R(2)}

\* The IngredientNutrient table as seeded, and with the Total Fat row of
\* Rice deleted.
AgreementTables ==
    {StoredIngredientNutrients,
     [key \in DOMAIN StoredIngredientNutrients \ {<<"Rice", NutrientId("Total Fat")>>} |->
        StoredIngredientNutrients[key]]}

\* The Nutrient table as seeded, and with the daily value of Sodium blank.
AgreementCatalogs ==
    {SeededNutrients,
     [SeededNutrients EXCEPT ![NutrientId("Sodium")] = Nutrient("Sodium", None)]}

InitAgreement ==
    /\ nutrients \in AgreementCatalogs
    /\ ingredient_nutrients \in AgreementTables
    /\ \E choice \in [{AgreementIngredients[k] : k \in DOMAIN AgreementIngredients}
                            -> AgreementWeights \cup {None}], size \in ServingSizes :
            recipe = RecipeRow(size, "g", R(1), "", <<>>, Partial(choice))
    /\ nutrition_data = None
    /\ issues = <<>>
    /\ warnings = <<>>
    /\ info = <<>>
    /\ result = None
    /\ indicators = None
    /\ response = None
    /\ db = EmptyDb
    /\ pc = {}

\* recipe.calculate_nutrition() on the stored recipe.
StoredCalculateNutrition ==
    /\ "calculate_nutrition" \notin pc
    /\ nutrition_data' = CalculateNutrition(recipe, ingredient_nutrients, nutrients)
    /\ pc' = pc \cup {"calculate_nutrition"}
    /\ UNCHANGED <<nutrients, ingredient_nutrients, recipe, issues, warnings, info,
                   result, indicators, response, db>>

\* FSSAIComplianceChecker(recipe, nutrition_data).get_fop_indicators()
StoredGetFopIndicators ==
    /\ "calculate_nutrition" \in pc
    /\ "get_fop_indicators" \notin pc
    /\ indicators' = GetFopIndicators(nutrition_data)
    /\ pc' = pc \cup {"get_fop_indicators"}
    /\ UNCHANGED <<nutrients, ingredient_nutrients, recipe, nutrition_data, issues,
                   warnings, info, result, response, db>>

\* The rows of the recipe as the front end posts them to api_live_calculate.
LiveItems(rows) ==
    LET order == SelectSeq(AgreementIngredients, LAMBDA i : i \in DOMAIN rows)
    IN  [k \in DOMAIN order |-> [ingredient_id |-> order[k], weight_grams |-> rows[order[k]]]]

\* POST api_live_calculate with the rows and the serving size of the recipe.
PostLiveCalculate ==
    /\ "api_live_calculate" \notin pc
    /\ response' = LiveCalculate(LiveItems(recipe.ingredients), recipe.serving_size,
                                 ingredient_nutrients, nutrients)
    /\ pc' = pc \cup {"api_live_calculate"}
    /\ UNCHANGED <<nutrients, ingredient_nutrients, recipe, nutrition_data, issues,
                   warnings, info, result, indicators, db>>

NextAgreement ==
    \/ StoredCalculateNutrition
    \/ StoredGetFopIndicators
    \/ PostLiveCalculate

SpecAgreement == InitAgreement /\ [][NextAgreement]_vars

-----------------------------------------------------------------------------
(* Claims on the stored ingredient rows                                    *)

\* C14: every stored RecipeIngredient row has weight_grams > 0.
C14_StoredWeightsPositive ==
    \A k \in DOMAIN db.rows : RGt(db.rows[k].weight_grams, Zero)

\* C14 for the views that test the weight: after api_recipe_create and
\* api_auto_analyze every stored row has weight_grams > 0.
C14_CheckedViewsStorePositive ==
    pc \in {"api_recipe_create", "api_auto_analyze"} =>
        \A k \in DOMAIN db.rows : RGt(db.rows[k].weight_grams, Zero)

\* No two rows of the recipe name the same ingredient.
NoDuplicateRows(rows) ==
    \A j, k \in DOMAIN rows : j # k => rows[j].ingredient # rows[k].ingredient

\* The items of a posted list that carry a positive weight, as rows.
PositiveItems(items) == SelectSeq(items, LAMBDA item : RGt(item.weight_grams, Zero))

IsPrefix(a, b) == Len(a) <= Len(b) /\ a = SubSeq(b, 1, Len(a))

\* C15: no recipe ever has two ingredient rows for the same ingredient, and
\* after an update that carries an ingredient list the recipe's rows are rows
\* of that list only (its positive items, in order), whatever the rows before.
C15_NoDuplicateRows ==
    /\ [](NoDuplicateRows(db.rows))
    /\ [][(pc' = "api_recipe_update" /\ db'.rows # db.rows) =>
            \E items \in PostedLists :
                /\ IsPrefix(db'.rows, PositiveItems(items))
                /\ response'.status = 200 => db'.rows = PositiveItems(items)]_vars

\* C15 witness: an update whose list names one ingredient twice has replaced
\* the two rows of the recipe by the first of the two and was refused the
\* second.
C15_Witness ==
    /\ pc = "api_recipe_update"
    /\ response.status = 500
    /\ Len(db.rows) = 1
    /\ NoDuplicateRows(db.rows)

-----------------------------------------------------------------------------
(* Claims on versions, consumers and exports                               *)

Consumers ==
    {"api_recipe_detail", "api_recipe_analyze", "api_recipe_compliance",
     "api_recipe_label", "api_recipe_export_download"}

\* C17: every answer of a consumer call (detail, analyze, compliance, label,
\* export download in any format) carries the nutrition and the verdict of the
\* ingredient rows stored at the time of the call.
C17_NeverStale ==
    (pc \in Consumers /\ response.status = 200) =>
        /\ "nutrition" \in DOMAIN response =>
                response.nutrition = Analysis(db).nutrition_data
        /\ "is_compliant" \in DOMAIN response =>
                response.is_compliant = Analysis(db).is_compliant

\* C17, the part that holds: every consumer answer other than a stored PDF
\* carries the nutrition and the verdict of the rows stored at the time.
C17_RecomputedAnswersFresh ==
    (/\ pc \in Consumers
     /\ response.status = 200
     /\ ~(pc = "api_recipe_export_download" /\ response.format = "pdf")) =>
        /\ "nutrition" \in DOMAIN response =>
                response.nutrition = Analysis(db).nutrition_data
        /\ "is_compliant" \in DOMAIN response =>
                response.is_compliant = Analysis(db).is_compliant

\* C18: api_recipe_export with a supported format adds one GeneratedLabel and
\* answers 200 whatever the verdict of check_all, and the label's
\* is_fssai_compliant, like the answer's is_compliant, is that verdict.
C18_ExportNotBlocked ==
    /\ [](pc = "api_recipe_export" /\ response.status = 200 =>
            /\ response.label_id = Len(db.labels)
            /\ db.labels[Len(db.labels)].is_fssai_compliant = Analysis(db).is_compliant
            /\ response.is_compliant = Analysis(db).is_compliant)
    /\ [][pc' = "api_recipe_export" =>
            \/ response'.status = 400 /\ db' = db
            \/ /\ response'.status = 200
               /\ Len(db'.labels) = Len(db.labels) + 1
               /\ db'.rows = db.rows]_vars

\* C18 witness: a compliant recipe exported, then emptied, which makes its
\* verdict False, and exported again as PDF: the second label is stored with
\* the flag False.
C18_Witness ==
    /\ pc = "api_recipe_export"
    /\ response.status = 200
    /\ ~response.is_compliant
    /\ db.labels[Len(db.labels)].format = "pdf"
    /\ ~db.labels[Len(db.labels)].is_fssai_compliant
    /\ Len(db.labels) = 2
    /\ db.labels[1].is_fssai_compliant

-----------------------------------------------------------------------------
(* Claims on the declarations of a recipe                                  *)

\* The positions of the warnings and info notes whose message starts with text.
WarningsWith(text) == {k \in DOMAIN warnings : warnings[k][1] = text}
InfoWith(text) == {k \in DOMAIN info : info[k][1] = text}

\* C19: check_all files one SERVING SIZE issue exactly when serving_size is
\* not above 0, one SERVING UNIT issue exactly when serving_unit is empty, and
\* one SERVINGS PER PACK warning exactly when servings_per_pack is not above
\* 0; SERVINGS PER PACK is never an issue and never decides the verdict.
C19_ServingDeclaration ==
    pc = "checked" =>
        /\ Cardinality(IssuesWith("SERVING SIZE"))
                = IF RLe(recipe.serving_size, Zero) THEN 1 ELSE 0
        /\ Cardinality(IssuesWith("SERVING UNIT"))
                = IF recipe.serving_unit = "" THEN 1 ELSE 0
        /\ Cardinality(WarningsWith("SERVINGS PER PACK"))
                = IF RLe(recipe.servings_per_pack, Zero) THEN 1 ELSE 0
        /\ IssuesWith("SERVINGS PER PACK") = {}
        /\ WarningsWith("SERVING SIZE") = {}
        /\ WarningsWith("SERVING UNIT") = {}
        /\ (RGt(recipe.serving_size, Zero) /\ recipe.serving_unit # "")
                => result.is_compliant

\* C19 witness: a recipe of 100 g servings with -1 servings per pack, checked:
\* the warning, no serving issue, compliant.
C19_Witness ==
    /\ pc = "checked"
    /\ recipe.serving_size = R(100)
    /\ recipe.serving_unit = "g"
    /\ recipe.servings_per_pack = R(0 - 1)
    /\ Cardinality(WarningsWith("SERVINGS PER PACK")) = 1
    /\ result.is_compliant

\* The license findings of a checked recipe, by list.
LicenseNoneProvided == "FSSAI LICENSE: No FSSAI license number provided."
LicenseMayNotBeValid == "FSSAI LICENSE: may not be valid."
LicenseFormatValid == "FSSAI LICENSE: (format valid)."
LicenseTexts == {LicenseNoneProvided, LicenseMayNotBeValid, LicenseFormatValid}

\* The license findings of a checked recipe where fourteen tells whether the
\* value counts as 14 digits: none is an issue, and there is exactly one, the
\* "none provided" warning for a blank value, the "may not be valid" warning
\* for a value that is not blank and does not count, the "format valid" info
\* note, without a warning, for one that counts.
LicenseFindings(fourteen) ==
    LET blank == Strip(recipe.fssai_license) = <<>>
        w(text) == Cardinality(WarningsWith(text))
        i(text) == Cardinality(InfoWith(text))
    IN  /\ \A t \in LicenseTexts : IssuesWith(t) = {}
        /\ w(LicenseFormatValid) = 0
        /\ i(LicenseNoneProvided) = 0
        /\ i(LicenseMayNotBeValid) = 0
        /\ w(LicenseNoneProvided) = (IF blank THEN 1 ELSE 0)
        /\ w(LicenseMayNotBeValid) = (IF ~blank /\ ~fourteen THEN 1 ELSE 0)
        /\ i(LicenseFormatValid) = (IF fourteen THEN 1 ELSE 0)

\* C20 as stated: check_all files exactly one license finding and never a
\* license issue: a warning when the value is blank, a warning when the value
\* is not exactly 14 characters all of them digits, and an info note, without
\* a warning, when it is.
C20_LicenseRuleOnValue ==
    pc = "checked" =>
        LicenseFindings(/\ Len(recipe.fssai_license) = 14
                        /\ \A k \in DOMAIN recipe.fssai_license :
                                recipe.fssai_license[k] \in Digits)

\* C20, amended: check_all files exactly one license finding and never a
\* license issue, judged on the value without its leading and trailing
\* whitespace: a warning when nothing is left, a warning when what is left is
\* not exactly 14 characters all of them digits, and an info note, without a
\* warning, when it is.
C20_LicenseRule ==
    pc = "checked" =>
        LET lic == Strip(recipe.fssai_license)
        IN  LicenseFindings(Len(lic) = 14 /\ \A k \in DOMAIN lic : lic[k] \in Digits)

\* C20 witness: fourteen digits between two blanks, checked: the "format
\* valid" info note and no license warning.
C20_Witness ==
    /\ pc = "checked"
    /\ Len(recipe.fssai_license) = 16
    /\ Cardinality(InfoWith(LicenseFormatValid)) = 1
    /\ WarningsWith(LicenseMayNotBeValid) = {}
    /\ WarningsWith(LicenseNoneProvided) = {}

-----------------------------------------------------------------------------
(* Claims on the trans fat rule and the notes                              *)

\* The per-100g value of the entry named name, None when there is none.
Per100gOf(name) == DictGet(Per100gByName(nutrition_data), name, None)

\* C21: check_all files no TRANS FAT issue and at most one TRANS FAT warning,
\* and files the warning exactly when the result has a Trans Fat entry above
\* 0 per 100 g, a Total Fat entry above 0 per 100 g, and the trans fat is more
\* than 2 % of the total fat; a share of exactly 2 % gives no warning.
C21_TransFatRule ==
    pc = "checked" =>
        LET trans == Per100gOf("Trans Fat")
            total == Per100gOf("Total Fat")
            over  == /\ trans # None
                     /\ total # None
                     /\ RGt(trans, Zero)
                     /\ RGt(total, Zero)
                     /\ RGt(RMul(trans, R(100)), RMul(R(2), total))
        IN  /\ IssuesWith("TRANS FAT") = {}
            /\ InfoWith("TRANS FAT") = {}
            /\ Cardinality(WarningsWith("TRANS FAT")) = (IF over THEN 1 ELSE 0)

\* C21 witness: 1 g of trans fat in 50 g of total fat, exactly 2 %, checked:
\* no TRANS FAT warning.
C21_Witness ==
    /\ pc = "checked"
    /\ Per100gOf("Trans Fat") = R(1)
    /\ Per100gOf("Total Fat") = R(50)
    /\ WarningsWith("TRANS FAT") = {}

\* The line _format_notes adds when there are neither issues nor warnings.
AllChecksPassed == <<"line", 0, <<"All FSSAI compliance checks passed.", None>>>>

\* The kinds of the lines of the notes that are headings, in order.
Headings(notes) ==
    LET heads == SelectSeq(notes, LAMBDA l : l[1] = "heading")
    IN  [k \in DOMAIN heads |-> heads[k][3][1]]

\* C22: when issues and warnings are both empty the notes are the single
\* "all checks passed" line, with no Issues, Warnings or Info section;
\* otherwise they are a numbered section for each non-empty list, in the
\* order Issues, Warnings, Info, and no such line.
C22_FormattedNotes ==
    pc = "checked" =>
        IF issues = <<>> /\ warnings = <<>>
        THEN result.notes = <<AllChecksPassed>>
        ELSE result.notes =
                Section("=== COMPLIANCE ISSUES (Must Fix) ===", issues)
                \o Section("=== WARNINGS (Recommended) ===", warnings)
                \o Section("=== INFO ===", info)

\* C22, the part that holds: with an issue or a warning the notes are the
\* numbered sections of the non-empty lists in the order Issues, Warnings,
\* Info, without the "all checks passed" line; with neither, the line is
\* there, it is the last one, and no Issues or Warnings section is.
C22_SectionsInOrder ==
    pc = "checked" =>
        IF issues = <<>> /\ warnings = <<>>
        THEN /\ result.notes[Len(result.notes)] = AllChecksPassed
             /\ Headings(result.notes) \in {<<>>, <<"=== INFO ===">>}
        ELSE /\ \A k \in DOMAIN result.notes : result.notes[k] # AllChecksPassed
             /\ result.notes =
                    Section("=== COMPLIANCE ISSUES (Must Fix) ===", issues)
                    \o Section("=== WARNINGS (Recommended) ===", warnings)
                    \o Section("=== INFO ===", info)

-----------------------------------------------------------------------------
(* Claims on the ingredient declaration and the attribution                *)

\* C23: after any additions, removals and reweightings, the ingredient list
\* string names every ingredient row of the recipe exactly once, with its
\* weight, heaviest first (weights never increase along the list).
C23_DeclarationOrder ==
    pc = "get_ingredient_list_string" =>
        LET str == response.ingredient_list
        IN  /\ Len(str) = Len(db.rows)
            /\ \A k \in DOMAIN db.rows :
                    Cardinality({j \in DOMAIN str :
                        str[j] = <<db.rows[k].ingredient, db.rows[k].weight_grams>>}) = 1
            /\ \A j \in 1..(Len(str) - 1) : RLe(str[j + 1][2], str[j][2])

\* C23 witness: three rows stored lightest first, two of them of one weight,
\* listed.
C23_Witness ==
    /\ pc = "get_ingredient_list_string"
    /\ Len(db.rows) = 3
    /\ db.rows[1].weight_grams = R(1)
    /\ db.rows[2].weight_grams = R(2)
    /\ db.rows[3].weight_grams = R(2)
    /\ response.ingredient_list[3][1] = db.rows[1].ingredient

\* The exact contribution of the stored row of ingredient name to the
\* nutrient named n, None when the ingredient has no value for it.
ExactContribution(name, n) ==
    LET k == CHOOSE j \in DOMAIN db.rows : db.rows[j].ingredient = name
    IN  IF <<name, NutrientId(n)>> \in DOMAIN ingredient_nutrients
        THEN Contribution(db.rows[k].weight_grams,
                          ingredient_nutrients[<<name, NutrientId(n)>>])
        ELSE None

\* The answers of api_reformulate that carry an attribution.
Attributed == pc = "api_reformulate" /\ response.status = 200 /\ response.needs_reformulation

\* C24: for every HIGH nutrient the top contributors are at most five
\* ingredients of the recipe that have a value for the nutrient, no other
\* ingredient contributes more than one of them, and they come in
\* non-increasing order of their contribution weight_grams/100 *
\* value_per_100g; an ingredient without a value is left out.
C24_AttributionRanking ==
    Attributed =>
        \A n \in DOMAIN response.attribution :
            LET top == response.attribution[n].top_contributors
                named == {top[k].ingredient : k \in DOMAIN top}
                stored == {db.rows[k].ingredient : k \in DOMAIN db.rows}
            IN  /\ Len(top) <= TopContributors
                /\ Cardinality(named) = Len(top)
                /\ named \subseteq {i \in stored : ExactContribution(i, n) # None}
                /\ \A k \in 1..(Len(top) - 1) :
                        RLe(ExactContribution(top[k + 1].ingredient, n),
                            ExactContribution(top[k].ingredient, n))
                /\ Len(top) = TopContributors =>
                        \A i \in stored \ named : \A j \in named :
                            ExactContribution(i, n) = None
                            \/ RLe(ExactContribution(i, n), ExactContribution(j, n))

\* C24, the part that holds: the top contributors are at most five
\* ingredients of the recipe with a value for the nutrient and a contribution
\* that rounds to more than 0 at four decimals, in non-increasing order of
\* the reported contribution_abs (the contribution rounded to three
\* decimals); an ingredient without a value is left out.
C24_RankedByReportedContribution ==
    Attributed =>
        \A n \in DOMAIN response.attribution :
            LET top == response.attribution[n].top_contributors
                named == {top[k].ingredient : k \in DOMAIN top}
                stored == {db.rows[k].ingredient : k \in DOMAIN db.rows}
                counted == {i \in stored :
                                /\ ExactContribution(i, n) # None
                                /\ RGt(Round(ExactContribution(i, n), 4), Zero)}
            IN  /\ Len(top) <= TopContributors
                /\ Cardinality(named) = Len(top)
                /\ named \subseteq counted
                /\ Cardinality(counted) <= TopContributors => named = counted
                /\ Cardinality(counted) > TopContributors => Len(top) = TopContributors
                /\ \A i \in counted \ named : \A j \in named :
                        RLe(Round(Round(ExactContribution(i, n), 4), 3),
                            Round(Round(ExactContribution(j, n), 4), 3))
                /\ \A k \in DOMAIN top :
                        top[k].contribution_abs
                            = Round(Round(ExactContribution(top[k].ingredient, n), 4), 3)
                /\ \A k \in 1..(Len(top) - 1) :
                        RLe(top[k + 1].contribution_abs, top[k].contribution_abs)

-----------------------------------------------------------------------------
(* Claims on requests in flight together                                   *)

\* The nutrition of the stored recipe with the ingredient list rows.
NutritionOf(rows) ==
    CalculateNutrition(RecipeObject([db EXCEPT !.rows = rows]), ingredient_nutrients,
                       nutrients)

\* C25: an analysis that interleaves with api_recipe_update replacing the
\* ingredients answers the nutrition of the complete old list or of the
\* complete new list, never that of an empty or partly rebuilt list.
C25_SnapshotIsolation ==
    pc.analyze.at = "done" =>
        response.analyze.nutrition \in {NutritionOf(RowsBeforeEdit),
                                        NutritionOf(pc.update.body)}

\* C26: when two auto-analyze requests for one stored recipe interleave and
\* both have ended, both have answered 200 and the recipe has two new
\* versions with distinct consecutive numbers: no duplicate, no gap, no
\* failed request.
C26_BothVersionsMade ==
    (\A p \in Requests : pc[p].at \in {"done", "failed"}) =>
        /\ \A p \in Requests : response[p].status = 200
        /\ \A k \in DOMAIN db.versions : db.versions[k].version_number = k
        /\ {response[p].version : p \in Requests}
                = {Len(db.versions) - 1, Len(db.versions)}

\* C27: an attempt of an address is rejected (429) exactly when the address
\* has had RATE_LIMIT_MAX attempts let through in the RATE_LIMIT_WINDOW
\* seconds before it: at most ten are allowed within a window, the further
\* ones are rejected, and attempts are allowed again once older ones have
\* aged out.
C27_RateLimit ==
    \A ip \in Addresses :
        LET log == db.attempts[ip]
            Before(k) == {j \in 1..(k - 1) : /\ ~log[j].limited
                                             /\ log[k].at - log[j].at < RATE_LIMIT_WINDOW}
        IN  \A k \in DOMAIN log :
                log[k].limited <=> Cardinality(Before(k)) >= RATE_LIMIT_MAX

-----------------------------------------------------------------------------
(* Claims on the tokens                                                    *)

\* C28: a token revoked by api_logout or api_token_refresh stays revoked
\* through every later login, refresh and logout, and a jwt_required view
\* answers 401 to every later request that presents it (a step that leaves
\* the clock alone is a request).
C28_RevocationPermanent ==
    /\ [][db.ever_revoked \subseteq db.ever_revoked' /\ db.ever_revoked' \subseteq db.revoked']_vars
    /\ [][(/\ db'.now = db.now
            /\ pc' \in {"api_profile", "api_token_refresh"}
            /\ response'.presented \in db.ever_revoked)
                => response'.status = 401 /\ db' = db]_vars

\* A revoked token that has not expired has been presented to a
\* jwt_required view after a later token had been issued.
C28_Witness ==
    /\ pc = "api_profile"
    /\ response.presented \in db.ever_revoked
    /\ response.presented.exp > Second(db.now)
    /\ \E t \in db.issued : t.iat > response.presented.iat
    /\ response.status = 401

\* C29: after a successful api_token_refresh the token returned is accepted
\* by the jwt_required views and the old token is rejected, also when the
\* refresh happens within the second in which the old token was issued.
C29_RefreshedTokenUsable ==
    pc = "api_token_refresh" /\ response.status = 200 =>
        /\ DecodeJwt(response.token, db.revoked, db.now) # None
        /\ DecodeJwt(response.presented, db.revoked, db.now) = None

-----------------------------------------------------------------------------
(* Claims on the live path                                                 *)

\* Both paths have run on a recipe whose weights are all positive.
BothPathsRun ==
    /\ pc = {"calculate_nutrition", "get_fop_indicators", "api_live_calculate"}
    /\ \A i \in DOMAIN recipe.ingredients : RGt(recipe.ingredients[i], Zero)

\* C30: for one serving size and one list of ingredients with positive
\* weights, api_live_calculate reports the nutrients calculate_nutrition
\* reports, each with the same total_value, per_serving, per_100g and
\* percent_dv, and the FOP levels get_fop_indicators gives.
C30_LiveAgreesWithStored ==
    BothPathsRun =>
        LET live == response.nutrition
        IN  /\ {live[k].nutrient_id : k \in DOMAIN live} = DOMAIN nutrition_data
            /\ \A k \in DOMAIN live :
                    LET stored == nutrition_data[live[k].nutrient_id]
                    IN  /\ live[k].total_value = stored.total_value
                        /\ live[k].per_serving = stored.per_serving
                        /\ live[k].per_100g = stored.per_100g
                        /\ live[k].percent_dv = stored.percent_dv
            /\ Len(response.fop_indicators) = Len(indicators)
            /\ \A k \in DOMAIN indicators :
                    /\ response.fop_indicators[k].nutrient = indicators[k].nutrient
                    /\ response.fop_indicators[k].level = indicators[k].level

\* Both paths have run on Rice, Salt and Butter together, the fat of Rice
\* not recorded and Sodium without a daily value: Total Fat and Sodium are
\* HIGH on both.
C30_Witness ==
    /\ BothPathsRun
    /\ DOMAIN recipe.ingredients = {"Rice", "Salt", "Butter"}
    /\ <<"Rice", NutrientId("Total Fat")>> \notin DOMAIN ingredient_nutrients
    /\ nutrition_data[NutrientId("Sodium")].percent_dv = None
    /\ indicators[1].level = "HIGH"
    /\ indicators[4].level = "HIGH"
    /\ response.fop_indicators[3].level = "LOW"

=============================================================================
